---- MODULE Spec2Model ----
(***************************************************************************)
(* Hash-committed identity / credential proof engine (zkid-acl, zkid-vc).  *)
(*                                                                         *)
(* The two libraries are modelled side by side: each process links one of  *)
(* them (both export the same C symbols), chosen by the variable library.  *)
(* SHA-256, Ed25519, Groth16 and the seeded generator are consumed as      *)
(* capabilities: SHA-256 by its real values on the byte strings the model  *)
(* uses, the others by idealised functional models.                        *)
(***************************************************************************)
EXTENDS Integers, Sequences, FiniteSets, TLC

(***************************************************************************)
(* Bytes, u64 values and field elements                                    *)
(***************************************************************************)

\* A u64 (and a field element built from one by Fr::from) is kept as four
\* limbs in base 10^6, least significant first, so that no intermediate value
\* leaves the range of 32-bit integers.
Limb == 1000 * 1000

U64Zero == <<0, 0, 0, 0>>

\* acc * 256 + b on limbs, wrapping at four limbs (2^64 < 10^24, so nothing wraps
\* for eight bytes)
MulAdd256(acc, b) ==
  LET t1 == acc[1] * 256 + b
      t2 == acc[2] * 256 + (t1 \div Limb)
      t3 == acc[3] * 256 + (t2 \div Limb)
      t4 == acc[4] * 256 + (t3 \div Limb)
  IN  <<t1 % Limb, t2 % Limb, t3 % Limb, t4 % Limb>>

\* a function on 1..n written out as the sequence it is
AsSeq(f) == f \o <<>>

\* u64::from_le_bytes([b1, ..., b8])
u64_from_le_bytes(bytes) ==
  LET a8 == MulAdd256(U64Zero, bytes[8])
      a7 == MulAdd256(a8, bytes[7])
      a6 == MulAdd256(a7, bytes[6])
      a5 == MulAdd256(a6, bytes[5])
      a4 == MulAdd256(a5, bytes[4])
      a3 == MulAdd256(a4, bytes[3])
      a2 == MulAdd256(a3, bytes[2])
  IN  MulAdd256(a2, bytes[1])

\* val % 1000000000000u64: 10^12 is two limbs
ModFieldRange(val) == <<val[1], val[2], 0, 0>>

\* Fr::from(u64): the scalar field of BN254 has 254 bits, the embedding is injective
\* a conversion that reduces the value like the digest encoder does; under it
\* two nonces that are equal modulo 10^12 give one field element
FrFromU64_reduced(val) == ModFieldRange(val)

FrFromU64(val) == val

\* a small integer as a u64
U64(n) == <<n % Limb, n \div Limb, 0, 0>>

\* u64::to_le_bytes for the dates of the model (below 2^24)
to_le_bytes(n) ==
  <<n % 256, (n \div 256) % 256, (n \div 65536) % 256, 0, 0, 0, 0, 0>>

(***************************************************************************)
(* The byte strings of the model, and SHA-256 on them (real digests)       *)
(***************************************************************************)

UserA ==
  <<117, 115, 101, 114, 45, 49, 57, 50, 49, 55, 48>>

UserB ==
  <<117, 115, 101, 114, 45, 50, 48, 57, 52, 51, 56, 55>>

UserC ==
  <<117, 115, 101, 114, 45, 49>>

PubKey1 ==
  <<135, 60, 60, 16, 170, 96, 222, 89, 147, 14, 56, 100, 229, 11, 250, 251, 57, 226, 20, 136, 31, 195, 153, 134, 215, 71, 179, 21, 226, 218, 65, 155>>

PubKey2 ==
  <<201, 236, 111, 178, 249, 160, 84, 85, 48, 175, 104, 95, 206, 184, 209, 157, 241, 122, 41, 239, 121, 245, 246, 150, 180, 221, 97, 38, 55, 20, 179, 3>>

PubKeyX ==
  <<223, 115, 33, 126, 133, 169, 84, 111, 4, 8, 56, 98, 110, 32, 12, 10, 155, 16, 16, 225, 159, 202, 2, 251, 114, 144, 238, 101, 124, 137, 52, 72>>

Secret1 ==
  <<19, 44, 209, 153, 209, 38, 57, 121, 245, 213, 172, 63, 112, 212, 105, 215, 245, 59, 171, 85, 40, 88, 35, 44, 35, 175, 18, 108, 55, 8, 24, 70>>

Secret2 ==
  <<236, 99, 13, 190, 40, 188, 66, 170, 49, 114, 227, 205, 31, 60, 225, 145, 139, 86, 242, 242, 193, 114, 229, 87, 128, 146, 146, 197, 0, 176, 60, 148>>

Sha256Table ==
  {
    <<<<117, 115, 101, 114, 45, 49, 57, 50, 49, 55, 48>>,
      <<228, 181, 173, 9, 228, 240, 113, 67, 1, 189, 103, 38, 253, 91, 30, 203, 127, 228, 191, 29, 5, 109, 93, 251, 174, 92, 166, 105, 227, 2, 132, 106>>>>,
    <<<<228, 181, 173, 9, 228, 240, 113, 67, 1, 189, 103, 38, 253, 91, 30, 203, 127, 228, 191, 29, 5, 109, 93, 251, 174, 92, 166, 105, 227, 2, 132, 106>>,
      <<208, 224, 71, 126, 22, 236, 202, 162, 167, 182, 219, 51, 126, 244, 23, 90, 165, 21, 194, 179, 205, 112, 48, 249, 99, 148, 49, 38, 211, 54, 56, 248>>>>,
    <<<<117, 115, 101, 114, 45, 50, 48, 57, 52, 51, 56, 55>>,
      <<203, 151, 175, 50, 124, 29, 85, 199, 72, 199, 22, 81, 251, 131, 0, 172, 90, 151, 92, 19, 247, 108, 81, 88, 131, 142, 72, 48, 68, 26, 86, 52>>>>,
    <<<<203, 151, 175, 50, 124, 29, 85, 199, 72, 199, 22, 81, 251, 131, 0, 172, 90, 151, 92, 19, 247, 108, 81, 88, 131, 142, 72, 48, 68, 26, 86, 52>>,
      <<208, 240, 79, 104, 220, 13, 10, 72, 230, 241, 178, 115, 136, 142, 5, 168, 252, 40, 150, 211, 87, 24, 235, 149, 11, 37, 229, 49, 148, 253, 209, 1>>>>,
    <<<<117, 115, 101, 114, 45, 49>>,
      <<198, 194, 137, 228, 158, 156, 5, 178, 20, 88, 96, 56, 123, 115, 188, 177, 141, 244, 63, 176, 154, 30, 74, 74, 151, 19, 199, 108, 136, 187, 84, 27>>>>,
    <<<<198, 194, 137, 228, 158, 156, 5, 178, 20, 88, 96, 56, 123, 115, 188, 177, 141, 244, 63, 176, 154, 30, 74, 74, 151, 19, 199, 108, 136, 187, 84, 27>>,
      <<201, 142, 248, 213, 82, 183, 232, 231, 166, 84, 125, 27, 169, 126, 97, 77, 210, 241, 252, 176, 226, 84, 94, 3, 140, 5, 208, 23, 142, 149, 96, 31>>>>,
    <<<<>>,
      <<227, 176, 196, 66, 152, 252, 28, 20, 154, 251, 244, 200, 153, 111, 185, 36, 39, 174, 65, 228, 100, 155, 147, 76, 164, 149, 153, 27, 120, 82, 184, 85>>>>,
    <<<<135, 60, 60, 16, 170, 96, 222, 89, 147, 14, 56, 100, 229, 11, 250, 251, 57, 226, 20, 136, 31, 195, 153, 134, 215, 71, 179, 21, 226, 218, 65, 155>>,
      <<180, 44, 195, 108, 133, 20, 45, 85, 189, 207, 103, 141, 239, 6, 107, 60, 255, 35, 182, 113, 116, 172, 29, 78, 82, 180, 196, 248, 252, 202, 16, 18>>>>,
    <<<<201, 236, 111, 178, 249, 160, 84, 85, 48, 175, 104, 95, 206, 184, 209, 157, 241, 122, 41, 239, 121, 245, 246, 150, 180, 221, 97, 38, 55, 20, 179, 3>>,
      <<205, 63, 115, 28, 153, 40, 15, 252, 174, 185, 52, 144, 239, 91, 21, 34, 71, 221, 134, 153, 119, 137, 128, 66, 86, 26, 87, 106, 126, 0, 84, 34>>>>,
    <<<<223, 115, 33, 126, 133, 169, 84, 111, 4, 8, 56, 98, 110, 32, 12, 10, 155, 16, 16, 225, 159, 202, 2, 251, 114, 144, 238, 101, 124, 137, 52, 72>>,
      <<180, 188, 135, 229, 170, 57, 117, 159, 61, 105, 114, 41, 231, 33, 190, 148, 54, 202, 195, 154, 93, 131, 204, 163, 26, 173, 193, 243, 211, 223, 82, 15>>>>,
    <<<<97, 99, 1, 0, 0, 0, 0, 0, 0, 0, 1, 0, 0, 0, 0, 0, 0, 0>>,
      <<233, 36, 67, 88, 228, 26, 58, 234, 114, 62, 160, 79, 228, 3, 244, 195, 21, 17, 38, 64, 33, 179, 118, 121, 52, 90, 158, 107, 214, 38, 175, 89>>>>,
    <<<<233, 36, 67, 88, 228, 26, 58, 234, 114, 62, 160, 79, 228, 3, 244, 195, 21, 17, 38, 64, 33, 179, 118, 121, 52, 90, 158, 107, 214, 38, 175, 89>>,
      <<18, 158, 148, 118, 148, 25, 167, 245, 200, 139, 27, 73, 183, 145, 245, 129, 243, 178, 250, 139, 204, 252, 30, 242, 11, 142, 145, 45, 113, 128, 172, 108>>>>,
    <<<<97, 99, 1, 0, 0, 0, 0, 0, 0, 0, 2, 0, 0, 0, 0, 0, 0, 0>>,
      <<237, 67, 224, 9, 243, 32, 86, 227, 49, 101, 21, 212, 112, 138, 112, 147, 10, 182, 37, 190, 101, 158, 165, 149, 115, 135, 106, 45, 219, 16, 28, 31>>>>,
    <<<<237, 67, 224, 9, 243, 32, 86, 227, 49, 101, 21, 212, 112, 138, 112, 147, 10, 182, 37, 190, 101, 158, 165, 149, 115, 135, 106, 45, 219, 16, 28, 31>>,
      <<188, 145, 12, 25, 77, 194, 183, 121, 34, 241, 226, 37, 153, 159, 203, 175, 253, 4, 184, 41, 125, 168, 163, 62, 98, 159, 202, 29, 122, 100, 174, 218>>>>,
    <<<<97, 99, 2, 0, 0, 0, 0, 0, 0, 0, 1, 0, 0, 0, 0, 0, 0, 0>>,
      <<171, 9, 168, 102, 6, 36, 72, 239, 180, 151, 35, 215, 149, 18, 232, 254, 157, 62, 10, 254, 100, 246, 124, 236, 183, 127, 22, 5, 228, 69, 201, 70>>>>,
    <<<<171, 9, 168, 102, 6, 36, 72, 239, 180, 151, 35, 215, 149, 18, 232, 254, 157, 62, 10, 254, 100, 246, 124, 236, 183, 127, 22, 5, 228, 69, 201, 70>>,
      <<40, 69, 159, 132, 50, 133, 63, 14, 235, 183, 210, 242, 138, 129, 174, 122, 21, 190, 200, 51, 246, 220, 150, 129, 189, 11, 89, 41, 243, 4, 80, 112>>>>,
    <<<<97, 99, 2, 0, 0, 0, 0, 0, 0, 0, 2, 0, 0, 0, 0, 0, 0, 0>>,
      <<86, 48, 162, 195, 101, 160, 117, 124, 160, 48, 72, 198, 196, 136, 122, 57, 101, 237, 26, 146, 19, 73, 217, 30, 112, 107, 19, 200, 112, 179, 111, 67>>>>,
    <<<<86, 48, 162, 195, 101, 160, 117, 124, 160, 48, 72, 198, 196, 136, 122, 57, 101, 237, 26, 146, 19, 73, 217, 30, 112, 107, 19, 200, 112, 179, 111, 67>>,
      <<91, 2, 63, 56, 41, 167, 213, 15, 242, 238, 153, 166, 149, 19, 204, 202, 132, 83, 148, 134, 165, 69, 251, 177, 130, 86, 180, 41, 232, 66, 167, 84>>>>,
    <<<<97, 98, 99, 1, 0, 0, 0, 0, 0, 0, 0, 1, 0, 0, 0, 0, 0, 0, 0>>,
      <<103, 206, 81, 9, 81, 222, 185, 161, 178, 209, 32, 230, 68, 234, 96, 6, 107, 183, 138, 148, 121, 9, 70, 9, 185, 105, 45, 119, 129, 182, 78, 135>>>>,
    <<<<103, 206, 81, 9, 81, 222, 185, 161, 178, 209, 32, 230, 68, 234, 96, 6, 107, 183, 138, 148, 121, 9, 70, 9, 185, 105, 45, 119, 129, 182, 78, 135>>,
      <<132, 115, 104, 94, 67, 8, 89, 180, 126, 254, 19, 20, 118, 93, 93, 229, 124, 7, 142, 185, 248, 116, 67, 27, 179, 163, 186, 3, 222, 141, 233, 254>>>>,
    <<<<97, 98, 99, 1, 0, 0, 0, 0, 0, 0, 0, 2, 0, 0, 0, 0, 0, 0, 0>>,
      <<30, 254, 98, 57, 251, 9, 124, 221, 187, 82, 171, 163, 139, 104, 40, 246, 88, 67, 51, 197, 110, 23, 24, 248, 84, 65, 54, 234, 136, 165, 89, 137>>>>,
    <<<<30, 254, 98, 57, 251, 9, 124, 221, 187, 82, 171, 163, 139, 104, 40, 246, 88, 67, 51, 197, 110, 23, 24, 248, 84, 65, 54, 234, 136, 165, 89, 137>>,
      <<195, 208, 95, 149, 59, 78, 57, 104, 17, 187, 154, 178, 37, 90, 177, 37, 113, 156, 8, 99, 81, 125, 6, 230, 49, 66, 142, 222, 205, 230, 154, 148>>>>,
    <<<<97, 98, 99, 2, 0, 0, 0, 0, 0, 0, 0, 1, 0, 0, 0, 0, 0, 0, 0>>,
      <<221, 85, 199, 64, 52, 146, 212, 161, 239, 165, 235, 199, 217, 40, 134, 34, 186, 65, 23, 152, 4, 86, 213, 52, 110, 221, 167, 229, 7, 123, 120, 254>>>>,
    <<<<221, 85, 199, 64, 52, 146, 212, 161, 239, 165, 235, 199, 217, 40, 134, 34, 186, 65, 23, 152, 4, 86, 213, 52, 110, 221, 167, 229, 7, 123, 120, 254>>,
      <<135, 100, 196, 66, 70, 129, 31, 85, 75, 132, 240, 62, 175, 27, 172, 214, 145, 219, 63, 238, 126, 37, 107, 191, 232, 79, 109, 167, 224, 193, 246, 150>>>>,
    <<<<97, 98, 99, 2, 0, 0, 0, 0, 0, 0, 0, 2, 0, 0, 0, 0, 0, 0, 0>>,
      <<230, 92, 165, 27, 239, 55, 225, 159, 30, 149, 28, 4, 196, 218, 112, 225, 180, 51, 136, 92, 79, 75, 97, 201, 207, 40, 140, 179, 219, 108, 188, 147>>>>,
    <<<<230, 92, 165, 27, 239, 55, 225, 159, 30, 149, 28, 4, 196, 218, 112, 225, 180, 51, 136, 92, 79, 75, 97, 201, 207, 40, 140, 179, 219, 108, 188, 147>>,
      <<228, 147, 43, 59, 85, 212, 61, 172, 49, 105, 27, 203, 162, 114, 59, 45, 229, 27, 44, 160, 250, 211, 34, 103, 94, 208, 224, 27, 99, 78, 155, 165>>>>,
    <<<<97, 98, 98, 99, 1, 0, 0, 0, 0, 0, 0, 0, 1, 0, 0, 0, 0, 0, 0, 0>>,
      <<76, 174, 245, 25, 159, 43, 123, 27, 202, 168, 231, 254, 24, 233, 133, 45, 57, 184, 245, 34, 137, 18, 136, 219, 147, 80, 117, 216, 61, 75, 161, 3>>>>,
    <<<<76, 174, 245, 25, 159, 43, 123, 27, 202, 168, 231, 254, 24, 233, 133, 45, 57, 184, 245, 34, 137, 18, 136, 219, 147, 80, 117, 216, 61, 75, 161, 3>>,
      <<237, 185, 76, 138, 69, 167, 234, 113, 216, 150, 146, 52, 242, 58, 133, 175, 185, 115, 41, 228, 106, 251, 250, 233, 248, 58, 23, 32, 141, 182, 212, 42>>>>,
    <<<<97, 98, 98, 99, 1, 0, 0, 0, 0, 0, 0, 0, 2, 0, 0, 0, 0, 0, 0, 0>>,
      <<18, 64, 78, 123, 101, 72, 146, 18, 78, 12, 133, 94, 108, 230, 70, 195, 197, 136, 194, 216, 145, 46, 15, 119, 97, 233, 252, 76, 197, 86, 247, 85>>>>,
    <<<<18, 64, 78, 123, 101, 72, 146, 18, 78, 12, 133, 94, 108, 230, 70, 195, 197, 136, 194, 216, 145, 46, 15, 119, 97, 233, 252, 76, 197, 86, 247, 85>>,
      <<1, 65, 132, 172, 130, 82, 138, 180, 202, 36, 54, 57, 193, 203, 48, 223, 115, 174, 146, 86, 145, 246, 13, 92, 215, 223, 143, 99, 105, 122, 184, 156>>>>,
    <<<<97, 98, 98, 99, 2, 0, 0, 0, 0, 0, 0, 0, 1, 0, 0, 0, 0, 0, 0, 0>>,
      <<198, 188, 31, 105, 208, 239, 108, 96, 132, 48, 216, 250, 108, 70, 62, 75, 159, 198, 87, 173, 183, 146, 18, 154, 246, 229, 235, 122, 202, 215, 102, 42>>>>,
    <<<<198, 188, 31, 105, 208, 239, 108, 96, 132, 48, 216, 250, 108, 70, 62, 75, 159, 198, 87, 173, 183, 146, 18, 154, 246, 229, 235, 122, 202, 215, 102, 42>>,
      <<81, 170, 162, 11, 238, 181, 205, 162, 107, 99, 209, 104, 95, 82, 67, 248, 98, 164, 104, 243, 49, 216, 116, 29, 77, 52, 220, 6, 134, 183, 182, 69>>>>,
    <<<<97, 98, 98, 99, 2, 0, 0, 0, 0, 0, 0, 0, 2, 0, 0, 0, 0, 0, 0, 0>>,
      <<116, 116, 22, 206, 164, 240, 115, 21, 231, 146, 237, 128, 49, 202, 113, 179, 108, 24, 218, 0, 17, 94, 235, 10, 66, 19, 96, 193, 52, 149, 182, 37>>>>,
    <<<<116, 116, 22, 206, 164, 240, 115, 21, 231, 146, 237, 128, 49, 202, 113, 179, 108, 24, 218, 0, 17, 94, 235, 10, 66, 19, 96, 193, 52, 149, 182, 37>>,
      <<169, 59, 53, 62, 18, 160, 182, 145, 154, 179, 184, 173, 49, 178, 217, 187, 159, 70, 197, 189, 158, 162, 23, 56, 39, 231, 163, 119, 231, 139, 58, 152>>>>,
    <<<<97, 99, 1, 0, 0, 0, 0, 0, 0, 0, 2, 0, 0, 0, 0, 0, 0, 0, 107, 118>>,
      <<153, 160, 138, 58, 22, 203, 66, 95, 255, 131, 119, 76, 66, 115, 27, 220, 125, 161, 14, 53, 213, 26, 9, 58, 197, 178, 99, 247, 2, 65, 94, 60>>>>,
    <<<<97, 98, 99, 1, 0, 0, 0, 0, 0, 0, 0, 2, 0, 0, 0, 0, 0, 0, 0, 107, 118>>,
      <<220, 252, 45, 137, 208, 239, 218, 154, 217, 94, 133, 10, 134, 254, 209, 44, 76, 161, 47, 149, 60, 254, 91, 247, 109, 3, 121, 31, 20, 193, 249, 11>>>>,
    <<<<97, 98, 98, 99, 1, 0, 0, 0, 0, 0, 0, 0, 2, 0, 0, 0, 0, 0, 0, 0, 107, 118>>,
      <<245, 188, 68, 203, 44, 70, 61, 144, 222, 145, 217, 60, 250, 148, 19, 179, 44, 194, 46, 127, 209, 18, 36, 244, 54, 182, 105, 26, 164, 155, 249, 117>>>>,
    <<<<1, 2>>,
      <<161, 40, 113, 254, 226, 16, 251, 134, 25, 41, 30, 174, 161, 148, 88, 28, 189, 37, 49, 228, 178, 55, 89, 210, 37, 246, 128, 105, 35, 246, 50, 34>>>>
  }
\* sha2::Sha256: new, update (the updates concatenate), finalize
Sha256(data) == (CHOOSE p \in Sha256Table : p[1] = data)[2]

(***************************************************************************)
(* Digest-to-field encoder, hex text, C strings                            *)
(***************************************************************************)

\* [hash[0], ..., hash[7]]
FirstEight(hash) == SubSeq(hash, 1, 8)

\* zkid-acl: hash_to_field
hash_to_field(data) ==
  FrFromU64(ModFieldRange(u64_from_le_bytes(FirstEight(Sha256(data)))))

\* an encoder that keeps the whole u64
hash_bytes_to_field_unreduced(data) ==
  FrFromU64(u64_from_le_bytes(FirstEight(Sha256(data))))

\* zkid-vc: hash_bytes_to_field
hash_bytes_to_field(data) ==
  FrFromU64(ModFieldRange(u64_from_le_bytes(FirstEight(Sha256(data)))))

HexChar(n) == IF n < 10 THEN 48 + n ELSE 87 + n

HexVal(c) ==
  IF c >= 48 /\ c <= 57 THEN c - 48
  ELSE IF c >= 97 /\ c <= 102 THEN c - 87
  ELSE IF c >= 65 /\ c <= 70 THEN c - 55
  ELSE -1

\* hex::encode: two lowercase digits per byte
bytes_to_hex(bytes) ==
  AsSeq([i \in 1..(2 * Len(bytes)) |->
           IF i % 2 = 1 THEN HexChar(bytes[(i + 1) \div 2] \div 16)
                        ELSE HexChar(bytes[i \div 2] % 16)])

\* hex::decode: Err on an odd length or a character that is no hex digit
hex_to_bytes(hex) ==
  IF Len(hex) % 2 = 1 \/ \E i \in 1..Len(hex) : HexVal(hex[i]) < 0
  THEN [ok |-> FALSE, bytes |-> <<>>]
  ELSE [ok |-> TRUE,
        bytes |-> AsSeq([i \in 1..(Len(hex) \div 2) |->
                           16 * HexVal(hex[2 * i - 1]) + HexVal(hex[2 * i])])]

\* CStr::from_ptr(p).to_str().unwrap_or(""): text that is not UTF-8 reads as ""
\* (the model's strings are ASCII or hold the byte 255, which no UTF-8 text holds)
CStrToStr(p) == IF \E i \in 1..Len(p) : p[i] >= 128 THEN <<>> ELSE p

\* Option<T>: None, Some(v)
None == <<>>

Some(v) == <<v>>

IsSome(o) == Len(o) = 1

Unwrap(o) == o[1]

(***************************************************************************)
(* Ed25519 (ed25519_dalek), idealised: a signature is a function of the    *)
(* signing key and the message, and verifies under the matching public key *)
(* for that message only                                                   *)
(***************************************************************************)

SECRET_KEY_LENGTH == 32

\* the key pairs of the model: SigningKey::from_bytes(secret).verifying_key()
KeyPairs ==
  {[secret |-> Secret1, public |-> PubKey1], [secret |-> Secret2, public |-> PubKey2]}

verifying_key(secret) == (CHOOSE kp \in KeyPairs : kp.secret = secret).public

\* VerifyingKey::from_bytes: Err when the bytes are no point of the curve
VerifyingKey_from_bytes(bytes) ==
  IF \E kp \in KeyPairs : kp.public = bytes
  THEN [ok |-> TRUE, key |-> bytes]
  ELSE [ok |-> FALSE, key |-> <<>>]

\* SigningKey::sign(message).to_bytes(): 64 bytes
Ed25519Sign(secret, message) == verifying_key(secret) \o message

\* a verification that accepts the signature of any key of the model
Ed25519Verify_any_key(pubkey, message, sig) ==
  \E kp \in KeyPairs : sig = Ed25519Sign(kp.secret, message)

\* VerifyingKey::verify(message, sig).is_ok()
Ed25519Verify(pubkey, message, sig) ==
  \E kp \in KeyPairs : kp.public = pubkey /\ sig = Ed25519Sign(kp.secret, message)

(***************************************************************************)
(* Circuits and Groth16 (ark_groth16), idealised: a proof verifies under   *)
(* the keys of the setup it was made with, for exactly the public inputs   *)
(* it was made for, when its assignment satisfies the constraints          *)
(***************************************************************************)

\* variables of a constraint system
WitnessVar(i) == <<"w", i>>

InputVar(i) == <<"x", i>>

\* UserIDCircuit::generate_constraints. In setup mode the assignment closures
\* are not evaluated; in proving mode a missing value is AssignmentMissing.
UserIDCircuit_generate_constraints(circuit, mode) ==
  IF mode = "prove" /\ (circuit.user_id_hash = None \/ circuit.public_id = None
                        \/ circuit.nonce = None)
  THEN [ok |-> FALSE]
  ELSE [ok |-> TRUE,
        name |-> "UserIDCircuit",
        witness |-> IF mode = "prove" THEN <<Unwrap(circuit.user_id_hash)>> ELSE <<>>,
        inputs |-> IF mode = "prove"
                   THEN <<Unwrap(circuit.public_id), Unwrap(circuit.nonce)>> ELSE <<>>,
        num_inputs |-> 2,
        \* a * 1 = c, kept as <<a, c>>
        constraints |-> {<<WitnessVar(1), InputVar(1)>>}]

\* VCCircuit::generate_constraints
VCCircuit_generate_constraints(circuit, mode) ==
  IF mode = "prove" /\ (circuit.vc_hash = None \/ circuit.issuer_pubkey_hash = None
                        \/ circuit.nonce = None)
  THEN [ok |-> FALSE]
  ELSE [ok |-> TRUE,
        name |-> "VCCircuit",
        witness |-> IF mode = "prove" THEN <<Unwrap(circuit.vc_hash)>> ELSE <<>>,
        inputs |-> IF mode = "prove"
                   THEN <<Unwrap(circuit.issuer_pubkey_hash), Unwrap(circuit.nonce)>>
                   ELSE <<>>,
        num_inputs |-> 2,
        constraints |-> {<<WitnessVar(1), WitnessVar(1)>>, <<InputVar(1), InputVar(1)>>}]

VarValue(v, witness, inputs) == IF v[1] = "w" THEN witness[v[2]] ELSE inputs[v[2]]

Satisfied(constraints, witness, inputs) ==
  \A c \in constraints : VarValue(c[1], witness, inputs) = VarValue(c[2], witness, inputs)

\* the keys of one setup, identified by the circuit and the generator's seed
KeyTag(key) == (IF key.name = "UserIDCircuit" THEN 1 ELSE 2) + 16 * key.seed

\* Groth16::circuit_specific_setup(circuit, rng) and PreparedVerifyingKey::from(vk)
Groth16Setup(cs, seed) ==
  IF ~cs.ok THEN [ok |-> FALSE]
  ELSE LET key == [name |-> cs.name, seed |-> seed, num_inputs |-> cs.num_inputs,
                   constraints |-> cs.constraints]
       IN  [ok |-> TRUE, pk |-> key, pvk |-> key]

\* Groth16::prove(pk, circuit, rng)
Groth16Prove(pk, cs, seed) ==
  IF ~cs.ok THEN [ok |-> FALSE]
  ELSE [ok |-> TRUE,
        proof |-> [key |-> KeyTag(pk), a |-> cs.witness, x |-> cs.inputs, r |-> seed]]

\* a verifier that binds the second public input alone
Groth16Verify_second_input_only(pvk, public_inputs, proof) ==
  IF Len(public_inputs) # pvk.num_inputs THEN [ok |-> FALSE, valid |-> FALSE]
  ELSE [ok |-> TRUE,
        valid |-> /\ proof.key = KeyTag(pvk)
                  /\ proof.x[2] = public_inputs[2]
                  /\ Satisfied(pvk.constraints, proof.a, proof.x)]

\* Groth16::verify_with_processed_vk(pvk, public_inputs, proof)
Groth16Verify(pvk, public_inputs, proof) ==
  IF Len(public_inputs) # pvk.num_inputs THEN [ok |-> FALSE, valid |-> FALSE]
  ELSE [ok |-> TRUE,
        valid |-> /\ proof.key = KeyTag(pvk)
                  /\ proof.x = public_inputs
                  /\ Satisfied(pvk.constraints, proof.a, proof.x)]

\* canonical bytes of a field element: three bytes per limb
FrBytes == 4 * 3

\* an encoding that keeps two bytes of every limb; under it a field element
\* does not survive serialisation
EncodeFr_low_bytes(f) ==
  AsSeq([i \in 1..FrBytes |->
           LET limb == f[((i - 1) \div 3) + 1]
               k == (i - 1) % 3
           IN  IF k = 2 THEN 0 ELSE (limb \div (IF k = 0 THEN 1 ELSE 256)) % 256])

EncodeFr(f) ==
  AsSeq([i \in 1..FrBytes |->
           LET limb == f[((i - 1) \div 3) + 1]
               k == (i - 1) % 3
           IN  (limb \div (IF k = 0 THEN 1 ELSE IF k = 1 THEN 256 ELSE 65536)) % 256])

DecodeFr(bytes) ==
  AsSeq([j \in 1..4 |->
           bytes[3 * j - 2] + 256 * bytes[3 * j - 1] + 65536 * bytes[3 * j]])

ProofLen == 1 + 4 * FrBytes

\* Proof::serialize_compressed
SerializeProof(proof) ==
  <<proof.key>> \o EncodeFr(proof.a[1]) \o EncodeFr(proof.x[1])
    \o EncodeFr(proof.x[2]) \o EncodeFr(proof.r)

\* Proof::deserialize_compressed: Err on bytes that are no encoding of a proof
DeserializeProof(bytes) ==
  IF Len(bytes) # ProofLen THEN [ok |-> FALSE]
  ELSE LET fr(k) == DecodeFr(SubSeq(bytes, 2 + (k - 1) * FrBytes, 1 + k * FrBytes))
       IN  IF \E k \in 1..4 : \E j \in 1..4 : fr(k)[j] >= Limb
           THEN [ok |-> FALSE]
           ELSE [ok |-> TRUE,
                 proof |-> [key |-> bytes[1], a |-> <<fr(1)>>, x |-> <<fr(2), fr(3)>>,
                            r |-> fr(4)]]

(***************************************************************************)
(* The boundary operations, as functions of the KeyStore and the arguments *)
(* A result holds the status code, the output buffer as the call leaves it *)
(* and the steps the call went through, in order.                          *)
(***************************************************************************)

\* a null pointer: no byte string
Null == <<-1>>

\* a cell of a caller's buffer the callee has not written
Unwritten == 256

Buffer(size) == AsSeq([i \in 1..size |-> Unwritten])

\* copy_nonoverlapping(hex) followed by the NUL terminator
WriteCStr(buf, hex) ==
  AsSeq([i \in 1..Len(buf) |->
           IF i <= Len(hex) THEN hex[i] ELSE IF i = Len(hex) + 1 THEN 0 ELSE buf[i]])

\* the text of a buffer up to its NUL
ReadCStr(buf) ==
  LET n == CHOOSE i \in 0..Len(buf) :
             /\ i = Len(buf) \/ buf[i + 1] = 0
             /\ \A j \in 1..i : buf[j] # 0
  IN  SubSeq(buf, 1, n)

\* a status code that tells how far the failing call came
Result_by_cause(ret, out, steps) ==
  [ret |-> IF ret = -1 THEN -1 - Len(steps) ELSE ret, out |-> out, steps |-> steps]

Result(ret, out, steps) == [ret |-> ret, out |-> out, steps |-> steps]

\* the dummy circuit ZK_Init sets up
SetupCircuit(variant) ==
  IF variant = "acl"
  THEN UserIDCircuit_generate_constraints(
         [user_id_hash |-> None, public_id |-> None, nonce |-> None], "setup")
  ELSE VCCircuit_generate_constraints(
         [vc_hash |-> None, issuer_pubkey_hash |-> None, nonce |-> None], "setup")

\* StdRng::seed_from_u64(0u64) in ZK_Init
SetupSeed == 0

\* ZK_Init after configure_rayon, up to the KEYS.lock(): the keys to install
Init_setup(variant) == Groth16Setup(SetupCircuit(variant), SetupSeed)

\* a lookup that falls back on the keys of a fresh setup when the KeyStore is
\* empty
as_ref_or_setup(keys_guard) ==
  [some |-> TRUE,
   pair |-> IF IsSome(keys_guard) THEN Unwrap(keys_guard)
            ELSE <<Init_setup("acl").pk, Init_setup("acl").pvk>>]

\* keys_guard.as_ref(): the pair the guard points at, if the KeyStore holds one
as_ref(keys_guard) ==
  [some |-> IsSome(keys_guard),
   pair |-> IF IsSome(keys_guard) THEN Unwrap(keys_guard) ELSE <<>>]

\* the tail of both generation operations: serialize, hex, capacity check, copy
EmitProof(proof, proof_out, steps) ==
  LET proof_hex == bytes_to_hex(SerializeProof(proof))
      done == Append(steps, "Serialize")
  IN  IF Len(proof_out) < Len(proof_hex) + 1
      THEN Result(-1, proof_out, done)
      ELSE Result(0, WriteCStr(proof_out, proof_hex), done)

\* a generator seeded from the size of the caller's output buffer
ProveSeed_from_buffer(a) == U64(Len(a.proof_out))

\* StdRng::seed_from_u64(nonce): the seed of the generator the prover draws from
ProveSeed(a) == a.nonce

\* a generation that hands the prover whatever it encoded, equal or not
GenerateProof_locked_unchecked(keys, a) ==
  IF ~as_ref(keys).some THEN Result(-1, a.proof_out, <<"KeyLookup">>)
  ELSE IF ~hex_to_bytes(CStrToStr(a.public_id)).ok
  THEN Result(-1, a.proof_out, <<"KeyLookup", "HashAndEncode">>)
  ELSE
    LET circuit == [user_id_hash |-> Some(hash_to_field(Sha256(a.user_id))),
                    public_id |-> Some(hash_to_field(
                                    hex_to_bytes(CStrToStr(a.public_id)).bytes)),
                    nonce |-> Some(FrFromU64(a.nonce))]
        proved == Groth16Prove(as_ref(keys).pair[1],
                    UserIDCircuit_generate_constraints(circuit, "prove"),
                    ProveSeed(a))
    IN  EmitProof(proved.proof, a.proof_out, <<"KeyLookup", "HashAndEncode", "Prove">>)

\* zkid-acl ZK_GenerateProof from the KEYS.lock() on
GenerateProof_locked(keys, a) ==
  IF ~as_ref(keys).some THEN Result(-1, a.proof_out, <<"KeyLookup">>)
  ELSE
    LET pk == as_ref(keys).pair[1]
        user_id_hash_field == hash_to_field(Sha256(a.user_id))
        public_id_bytes == hex_to_bytes(CStrToStr(a.public_id))
    IN  IF ~public_id_bytes.ok
        THEN Result(-1, a.proof_out, <<"KeyLookup", "HashAndEncode">>)
        ELSE
          LET public_id_field == hash_to_field(public_id_bytes.bytes)
          IN  IF user_id_hash_field # public_id_field
              THEN Result(-1, a.proof_out, <<"KeyLookup", "HashAndEncode">>)
              ELSE
                LET nonce_field == FrFromU64(a.nonce)
                    circuit == [user_id_hash |-> Some(user_id_hash_field),
                                public_id |-> Some(public_id_field),
                                nonce |-> Some(nonce_field)]
                    proved == Groth16Prove(pk,
                                UserIDCircuit_generate_constraints(circuit, "prove"),
                                ProveSeed(a))
                    steps == <<"KeyLookup", "HashAndEncode", "Prove">>
                IN  IF ~proved.ok THEN Result(-1, a.proof_out, steps)
                    ELSE EmitProof(proved.proof, a.proof_out, steps)

\* zkid-acl ZK_GenerateProof(user_id, user_id_len, public_id, nonce, proof_out,
\* proof_out_size)
ZK_GenerateProof(keys, a) ==
  IF a.user_id = Null \/ a.public_id = Null \/ a.proof_out = Null
  THEN Result(-1, a.proof_out, <<>>)
  ELSE GenerateProof_locked(keys, a)

\* a verifier that builds [nonce, public id]
VerifyProof_public_inputs_swapped(public_id_bytes, nonce) ==
  <<FrFromU64(nonce), hash_to_field(public_id_bytes)>>

\* the public inputs the verifier builds (zkid-acl)
VerifyProof_public_inputs(public_id_bytes, nonce) ==
  <<hash_to_field(public_id_bytes), FrFromU64(nonce)>>

\* the public inputs the verifier builds (zkid-vc)
VerifyVCProof_public_inputs(issuer_pubkey_bytes, nonce) ==
  <<hash_bytes_to_field(issuer_pubkey_bytes), FrFromU64(nonce)>>

\* both verification operations from the KEYS.lock() on; ctx is the public
\* identifier (zkid-acl) or the issuer public key (zkid-vc)
VerifyProof_locked(keys, proof_hex, ctx, nonce, variant) ==
  IF ~as_ref(keys).some THEN Result(0, Null, <<"KeyLookup">>)
  ELSE
    LET pvk == as_ref(keys).pair[2]
        proof_bytes == hex_to_bytes(CStrToStr(proof_hex))
    IN  IF ~proof_bytes.ok THEN Result(0, Null, <<"KeyLookup">>)
        ELSE
          LET proof == DeserializeProof(proof_bytes.bytes)
          IN  IF ~proof.ok THEN Result(0, Null, <<"KeyLookup", "Deserialize">>)
              ELSE
                LET ctx_bytes == hex_to_bytes(CStrToStr(ctx))
                IN  IF ~ctx_bytes.ok
                    THEN Result(0, Null, <<"KeyLookup", "Deserialize">>)
                    ELSE
                      LET public_inputs ==
                            IF variant = "acl"
                            THEN VerifyProof_public_inputs(ctx_bytes.bytes, nonce)
                            ELSE VerifyVCProof_public_inputs(ctx_bytes.bytes, nonce)
                          verdict == Groth16Verify(pvk, public_inputs, proof.proof)
                          steps == <<"KeyLookup", "Deserialize", "Verify">>
                      IN  IF verdict.ok /\ verdict.valid THEN Result(1, Null, steps)
                          ELSE Result(0, Null, steps)

\* a verification that answers 1 to a null argument
ZK_VerifyProof_null_accepted(keys, a) ==
  IF a.proof_hex = Null \/ a.public_id = Null THEN Result(1, Null, <<>>)
  ELSE VerifyProof_locked(keys, a.proof_hex, a.public_id, a.nonce, "acl")

\* zkid-acl ZK_VerifyProof(proof_hex, public_id, nonce)
ZK_VerifyProof(keys, a) ==
  IF a.proof_hex = Null \/ a.public_id = Null THEN Result(0, Null, <<>>)
  ELSE VerifyProof_locked(keys, a.proof_hex, a.public_id, a.nonce, "acl")

\* a verification that reads its time argument and rejects a late one
ZK_VerifyVCProof_timed(keys, a) ==
  IF a.proof_hex = Null \/ a.issuer_pubkey = Null \/ a.current_time > 2
  THEN Result(0, Null, <<>>)
  ELSE VerifyProof_locked(keys, a.proof_hex, a.issuer_pubkey, a.nonce, "vc")

\* zkid-vc ZK_VerifyVCProof(proof_hex, issuer_pubkey, _current_time, nonce)
ZK_VerifyVCProof(keys, a) ==
  IF a.proof_hex = Null \/ a.issuer_pubkey = Null THEN Result(0, Null, <<>>)
  ELSE VerifyProof_locked(keys, a.proof_hex, a.issuer_pubkey, a.nonce, "vc")

\* the message the boundary operations sign and verify: SHA-256 over holder_id,
\* issuer, issue_date (8 LE bytes), expiry_date (8 LE bytes)
VCMessageHash(holder_id, issuer, issue_date, expiry_date) ==
  Sha256(holder_id \o issuer \o to_le_bytes(issue_date) \o to_le_bytes(expiry_date))

\* zkid-vc ZK_SignVC(holder_id, .., issuer_private_key, signature_out, size)
ZK_SignVC(a) ==
  IF a.holder_id = Null \/ a.issuer = Null \/ a.issuer_private_key = Null
     \/ a.signature_out = Null
  THEN Result(-1, a.signature_out, <<>>)
  ELSE
    LET privkey_bytes == hex_to_bytes(CStrToStr(a.issuer_private_key))
    IN  IF ~privkey_bytes.ok \/ Len(privkey_bytes.bytes) # SECRET_KEY_LENGTH
        THEN Result(-1, a.signature_out, <<>>)
        ELSE
          LET message == VCMessageHash(a.holder_id, a.issuer, a.issue_date,
                                       a.expiry_date)
              signature_hex == bytes_to_hex(Ed25519Sign(privkey_bytes.bytes, message))
          IN  IF Len(a.signature_out) < Len(signature_hex) + 1
              THEN Result(-1, a.signature_out, <<"Sign">>)
              ELSE Result(0, WriteCStr(a.signature_out, signature_hex), <<"Sign">>)

\* a signature check that answers 1 when a text is no hex
ZK_VerifyVCSignature_fail_open(a) ==
  IF a.holder_id = Null \/ a.issuer = Null \/ a.signature = Null
     \/ a.issuer_public_key = Null
  THEN 0
  ELSE IF ~hex_to_bytes(CStrToStr(a.signature)).ok
          \/ ~hex_to_bytes(CStrToStr(a.issuer_public_key)).ok
  THEN 1
  ELSE IF Len(hex_to_bytes(CStrToStr(a.signature)).bytes) # 64
          \/ ~VerifyingKey_from_bytes(
                hex_to_bytes(CStrToStr(a.issuer_public_key)).bytes).ok
  THEN 0
  ELSE IF Ed25519Verify(hex_to_bytes(CStrToStr(a.issuer_public_key)).bytes,
                        VCMessageHash(a.holder_id, a.issuer, a.issue_date,
                                      a.expiry_date),
                        hex_to_bytes(CStrToStr(a.signature)).bytes)
  THEN 1 ELSE 0

\* zkid-vc ZK_VerifyVCSignature(holder_id, .., signature, issuer_public_key)
ZK_VerifyVCSignature(a) ==
  IF a.holder_id = Null \/ a.issuer = Null \/ a.signature = Null
     \/ a.issuer_public_key = Null
  THEN 0
  ELSE
    LET signature_bytes == hex_to_bytes(CStrToStr(a.signature))
        pubkey_bytes == hex_to_bytes(CStrToStr(a.issuer_public_key))
    IN  IF ~signature_bytes.ok \/ ~pubkey_bytes.ok THEN 0
        ELSE IF Len(signature_bytes.bytes) # 64 \/ Len(pubkey_bytes.bytes) # 32 THEN 0
        ELSE
          LET parsed_key == VerifyingKey_from_bytes(pubkey_bytes.bytes)
          IN  IF ~parsed_key.ok THEN 0
              ELSE
                LET message == VCMessageHash(a.holder_id, a.issuer, a.issue_date,
                                             a.expiry_date)
                IN  IF Ed25519Verify(parsed_key.key, message, signature_bytes.bytes)
                    THEN 1 ELSE 0

\* the arguments ZK_GenerateVCProof hands to ZK_VerifyVCSignature
SignatureArgs(a) ==
  [holder_id |-> a.holder_id, issuer |-> a.issuer, issue_date |-> a.issue_date,
   expiry_date |-> a.expiry_date, signature |-> a.vc_signature,
   issuer_public_key |-> a.issuer_pubkey]

\* Step 1 of ZK_GenerateVCProof
SignatureCheck(a) == ZK_VerifyVCSignature(SignatureArgs(a)) = 1

\* a time window that is open at both ends
TimeWindowCheck_open(a) ==
  a.current_time > a.issue_date /\ a.current_time < a.expiry_date

\* Step 2 of ZK_GenerateVCProof
TimeWindowCheck(a) ==
  ~(a.current_time < a.issue_date \/ a.current_time > a.expiry_date)

\* a prelude that takes the signature as verified
GenerateVCProof_prelude_unsigned(a) ==
  IF a.holder_id = Null \/ a.issuer = Null \/ a.vc_signature = Null
     \/ a.issuer_pubkey = Null \/ a.proof_out = Null
  THEN [pass |-> FALSE, steps |-> <<>>]
  ELSE IF ~TimeWindowCheck(a)
  THEN [pass |-> FALSE, steps |-> <<"SignatureCheck", "TimeWindowCheck">>]
  ELSE [pass |-> TRUE, steps |-> <<"SignatureCheck", "TimeWindowCheck">>]

\* zkid-vc ZK_GenerateVCProof before the KEYS.lock(): the null checks, the
\* signature check and the time-window check. The steps it went through, and
\* whether the call goes on.
GenerateVCProof_prelude(a) ==
  IF a.holder_id = Null \/ a.issuer = Null \/ a.vc_signature = Null
     \/ a.issuer_pubkey = Null \/ a.proof_out = Null
  THEN [pass |-> FALSE, steps |-> <<>>]
  ELSE IF ~SignatureCheck(a) THEN [pass |-> FALSE, steps |-> <<"SignatureCheck">>]
  ELSE IF ~TimeWindowCheck(a)
  THEN [pass |-> FALSE, steps |-> <<"SignatureCheck", "TimeWindowCheck">>]
  ELSE [pass |-> TRUE, steps |-> <<"SignatureCheck", "TimeWindowCheck">>]

\* zkid-vc ZK_GenerateVCProof from the KEYS.lock() on
GenerateVCProof_locked(keys, a, before) ==
  IF ~as_ref(keys).some THEN Result(-1, a.proof_out, Append(before, "KeyLookup"))
  ELSE
    LET pk == as_ref(keys).pair[1]
        issuer_pubkey_bytes == hex_to_bytes(CStrToStr(a.issuer_pubkey))
        vc_signature_bytes == hex_to_bytes(CStrToStr(a.vc_signature))
        parsed == before \o <<"KeyLookup", "HashAndEncode">>
    IN  IF ~issuer_pubkey_bytes.ok \/ ~vc_signature_bytes.ok
        THEN Result(-1, a.proof_out, parsed)
        ELSE
          LET vc_message_hash == VCMessageHash(a.holder_id, a.issuer, a.issue_date,
                                               a.expiry_date)
              circuit == [vc_hash |-> Some(hash_bytes_to_field(vc_message_hash)),
                          issuer_pubkey_hash |->
                            Some(hash_bytes_to_field(issuer_pubkey_bytes.bytes)),
                          nonce |-> Some(FrFromU64(a.nonce))]
              proved == Groth16Prove(pk,
                          VCCircuit_generate_constraints(circuit, "prove"),
                          ProveSeed(a))
              steps == Append(parsed, "Prove")
          IN  IF ~proved.ok THEN Result(-1, a.proof_out, steps)
              ELSE EmitProof(proved.proof, a.proof_out, steps)

\* zkid-vc ZK_GenerateVCProof(holder_id, .., vc_signature, issuer_pubkey,
\* current_time, nonce, proof_out, proof_out_size)
ZK_GenerateVCProof(keys, a) ==
  LET pre == GenerateVCProof_prelude(a)
  IN  IF ~pre.pass THEN Result(-1, a.proof_out, pre.steps)
      ELSE GenerateVCProof_locked(keys, a, pre.steps)

\* a configuration whose body runs at every call
configure_rayon_every_call(cfg) ==
  [once |-> TRUE, rayon_num_threads |-> "1", body_runs |-> cfg.body_runs + 1]

\* configure_rayon: INIT.call_once sets RAYON_NUM_THREADS; the body runs only
\* while the Once is not completed
configure_rayon(cfg) ==
  IF cfg.once THEN cfg
  ELSE [once |-> TRUE, rayon_num_threads |-> "1", body_runs |-> cfg.body_runs + 1]

\* a ZK_Init whose failure leaves the KeyStore empty
ZK_Init_clearing(keys, variant, fault) ==
  IF fault = "none"
  THEN [ret |-> 0,
        keys |-> Some(<<Init_setup(variant).pk, Init_setup(variant).pvk>>),
        steps |-> <<"ConfigureRayon", "Setup", "Install">>]
  ELSE [ret |-> -1, keys |-> None, steps |-> <<"ConfigureRayon", "Setup">>]

\* a ZK_Init that draws another seed when the KeyStore already holds keys
ZK_Init_reseeded(keys, variant, fault) ==
  LET setup == Groth16Setup(SetupCircuit(variant),
                            IF IsSome(keys) THEN SetupSeed + 1 ELSE SetupSeed)
  IN  IF fault = "none"
      THEN [ret |-> 0, keys |-> Some(<<setup.pk, setup.pvk>>),
            steps |-> <<"ConfigureRayon", "Setup", "Install">>]
      ELSE [ret |-> -1, keys |-> keys, steps |-> <<"ConfigureRayon", "Setup">>]

\* ZK_Init: the status code and the KeyStore it leaves. The two capabilities it
\* calls may fail: circuit_specific_setup returns Err (fault "setup_error"), and
\* KEYS.lock() returns Err (fault "lock_error")
ZK_Init(keys, variant, fault) ==
  LET setup == IF fault = "setup_error" THEN [ok |-> FALSE] ELSE Init_setup(variant)
  IN  IF ~setup.ok
      THEN [ret |-> -1, keys |-> keys, steps |-> <<"ConfigureRayon", "Setup">>]
      ELSE IF fault = "lock_error"
      THEN [ret |-> -1, keys |-> keys, steps |-> <<"ConfigureRayon", "Setup">>]
      ELSE [ret |-> 0, keys |-> Some(<<setup.pk, setup.pvk>>),
            steps |-> <<"ConfigureRayon", "Setup", "Install">>]

\* a cleanup that leaves the KeyStore as it is
ZK_Cleanup_kept(keys) == keys

\* ZK_Cleanup: the KeyStore it leaves
ZK_Cleanup(keys) == None

\* zkid-acl ZK_ComputePublicID(user_id, user_id_len, public_id, public_id_size)
ZK_ComputePublicID(a) ==
  IF a.user_id = Null \/ a.public_id = Null THEN Result(-1, a.public_id, <<>>)
  ELSE
    LET hex_str == bytes_to_hex(Sha256(a.user_id))
    IN  IF Len(a.public_id) < Len(hex_str) + 1
        THEN Result(-1, a.public_id, <<"Hash">>)
        ELSE Result(0, WriteCStr(a.public_id, hex_str), <<"Hash">>)

\* zkid-vc ZK_ComputeVCHash(holder_id, .., issue_date, expiry_date, vc_hash_out,
\* vc_hash_out_size)
ZK_ComputeVCHash(a) ==
  IF a.holder_id = Null \/ a.issuer = Null \/ a.vc_hash_out = Null
  THEN Result(-1, a.vc_hash_out, <<>>)
  ELSE
    LET hex_str == bytes_to_hex(Sha256(a.holder_id \o a.issuer
                      \o to_le_bytes(a.issue_date) \o to_le_bytes(a.expiry_date)))
    IN  IF Len(a.vc_hash_out) < Len(hex_str) + 1
        THEN Result(-1, a.vc_hash_out, <<"Hash">>)
        ELSE Result(0, WriteCStr(a.vc_hash_out, hex_str), <<"Hash">>)

\* StdRng::seed_from_u64(seed) and rng.fill_bytes(&mut secret_bytes): the
\* generator is a function of its seed. The seed 0x1234567890ABCDEF gives the
\* first secret of the model, every other seed the second.
fill_bytes(seed) ==
  IF seed = <<899695, 467294, 311768, 1>> THEN Secret1 ELSE Secret2

\* a key generation that writes each buffer that is large enough
ZK_GenerateIssuerKeypairDeterministic_each(a) ==
  IF a.public_key_out = Null \/ a.private_key_out = Null
  THEN Result(-1, <<a.public_key_out, a.private_key_out>>, <<>>)
  ELSE
    LET secret_bytes == fill_bytes(a.seed)
        public_key_hex == bytes_to_hex(verifying_key(secret_bytes))
        private_key_hex == bytes_to_hex(secret_bytes)
        public_fits == Len(a.public_key_out) >= Len(public_key_hex) + 1
        private_fits == Len(a.private_key_out) >= Len(private_key_hex) + 1
    IN  Result(IF public_fits /\ private_fits THEN 0 ELSE -1,
               <<IF public_fits THEN WriteCStr(a.public_key_out, public_key_hex)
                 ELSE a.public_key_out,
                 IF private_fits THEN WriteCStr(a.private_key_out, private_key_hex)
                 ELSE a.private_key_out>>,
               <<"Keygen">>)

\* zkid-vc ZK_GenerateIssuerKeypairDeterministic(seed, public_key_out,
\* public_key_size, private_key_out, private_key_size); the output is the pair
\* of buffers
ZK_GenerateIssuerKeypairDeterministic(a) ==
  IF a.public_key_out = Null \/ a.private_key_out = Null
  THEN Result(-1, <<a.public_key_out, a.private_key_out>>, <<>>)
  ELSE
    LET secret_bytes == fill_bytes(a.seed)
        public_key_hex == bytes_to_hex(verifying_key(secret_bytes))
        private_key_hex == bytes_to_hex(secret_bytes)
    IN  IF Len(a.public_key_out) < Len(public_key_hex) + 1
           \/ Len(a.private_key_out) < Len(private_key_hex) + 1
        THEN Result(-1, <<a.public_key_out, a.private_key_out>>, <<"Keygen">>)
        ELSE Result(0, <<WriteCStr(a.public_key_out, public_key_hex),
                         WriteCStr(a.private_key_out, private_key_hex)>>,
                    <<"Keygen">>)

\* a seedless key generation seeded from the size of the caller's buffer
ZK_GenerateIssuerKeypair_other_seed(a) ==
  ZK_GenerateIssuerKeypairDeterministic(
    [seed |-> U64(Len(a.public_key_out)), public_key_out |-> a.public_key_out,
     private_key_out |-> a.private_key_out])

\* zkid-vc ZK_GenerateIssuerKeypair(public_key_out, public_key_size,
\* private_key_out, private_key_size): the same statements, with the seed
\* 0x1234567890ABCDEF
ZK_GenerateIssuerKeypair(a) ==
  ZK_GenerateIssuerKeypairDeterministic(
    [seed |-> <<899695, 467294, 311768, 1>>, public_key_out |-> a.public_key_out,
     private_key_out |-> a.private_key_out])

\* VerifiableCredential::message_hash: holder_id, issuer, the two dates and
\* then the key and the value of every claim
message_hash(vc) ==
  LET claim_bytes[i \in 0..Len(vc.claims)] ==
        IF i = 0 THEN <<>>
        ELSE claim_bytes[i - 1] \o vc.claims[i][1] \o vc.claims[i][2]
  IN  Sha256(vc.holder_id \o vc.issuer \o to_le_bytes(vc.issue_date)
             \o to_le_bytes(vc.expiry_date) \o claim_bytes[Len(vc.claims)])

\* VerifiableCredential::verify_signature(&self, issuer_pubkey): Signature::
\* from_slice accepts exactly 64 bytes
verify_signature(vc, issuer_pubkey) ==
  IF Len(vc.signature) # 64 THEN FALSE
  ELSE Ed25519Verify(issuer_pubkey, message_hash(vc), vc.signature)

(***************************************************************************)
(* State                                                                   *)
(***************************************************************************)

VARIABLES
  library,      \* the library the process links: "acl" or "vc"
  KEYS,         \* static KEYS: Option<(ProvingKey, PreparedVerifyingKey)>
  rayon,        \* static INIT (the Once), RAYON_NUM_THREADS, runs of the body
  unconfigured, \* a proving-library entry point ran before the configuration
  last,         \* the boundary call that returned last
  kept,         \* a proof an earlier generation call returned, with its arguments
  signed,       \* a signature an earlier ZK_SignVC returned, with its arguments
  issued,       \* a key pair an earlier key generation returned, with its seed
  lock,         \* the thread that holds the Mutex of KEYS, or NoThread
  pc,           \* where each thread is in the boundary call it runs
  snap,         \* what each thread's KeyLookup found behind the guard
  made,         \* the keys each thread's setup in ZK_Init returned
  interfered    \* KEYS was written while another thread was using what it found

vars ==
  <<library, KEYS, rayon, unconfigured, last, kept, signed, issued, lock, pc, snap,
    made, interfered>>

\* the state of the threads
threads == <<lock, pc, snap, made, interfered>>

(***************************************************************************)
(* The arguments the callers of the model pass                             *)
(***************************************************************************)

\* nonces: 1 and 10^12 + 1
Nonces == {<<1, 0, 0, 0>>, <<1, 0, 1, 0>>}

NonceOne == <<1, 0, 0, 0>>

\* current_time ranges over 0..MaxTime
MaxTime == 3

Dates == {1, 2}

\* "zz": no hex text
BadHex == <<122, 122>>

\* "0102": hex text of two bytes
ShortHex == <<48, 49, 48, 50>>

\* what ZK_ComputePublicID writes for a user id
PublicIdOf(user_id) == bytes_to_hex(Sha256(user_id))

ProofHexLen == 2 * ProofLen

ProofBuffers ==
  {Null, Buffer(ProofHexLen), Buffer(ProofHexLen + 1), Buffer(ProofHexLen + 2)}

AclPublicIds == {PublicIdOf(UserA), PublicIdOf(UserB), PublicIdOf(UserC), BadHex}

\* every user id with every public identifier and nonce, and null pointers and
\* output buffers of every size
AclGenArgs ==
  [user_id : {UserA, UserB, UserC}, public_id : AclPublicIds, nonce : Nonces,
   proof_out : {Buffer(ProofHexLen + 1)}]
  \cup [user_id : {UserA, Null}, public_id : {PublicIdOf(UserA), Null},
        nonce : {NonceOne}, proof_out : ProofBuffers]

\* the KeyStore of a process: empty, or what ZK_Init installs
KeyStores(v) == {None, ZK_Init(None, v, "none").keys}

\* the results of ZK_GenerateProof, tabulated once (the tables are constants:
\* no parameter or LET name of the operators they use is the name of a variable)
AclGenResults ==
  [k \in KeyStores("acl"), a \in AclGenArgs |-> ZK_GenerateProof(k, a)]

\* the proof texts the successful calls of a table return
ProofsOf(results) ==
  {ReadCStr(results[x].out) : x \in {y \in DOMAIN results : results[y].ret = 0}}

\* texts that are no proof
NoProofTexts == {BadHex, ShortHex, Null}

AclVerifyArgs ==
  [proof_hex : ProofsOf(AclGenResults) \cup NoProofTexts,
   public_id : AclPublicIds \cup {Null}, nonce : Nonces]

\* the results of ZK_VerifyProof, tabulated once
AclVerifyResults ==
  [k \in KeyStores("acl"), a \in AclVerifyArgs |-> ZK_VerifyProof(k, a)]

HolderA == <<97>>

HolderAB == <<97, 98>>

IssuerBC == <<98, 99>>

IssuerC == <<99>>

\* what ZK_SignVC writes for these fields under this private key
SignatureOf(holder_id, issuer, issue_date, expiry_date, secret) ==
  bytes_to_hex(Ed25519Sign(secret, VCMessageHash(holder_id, issuer, issue_date,
                                                  expiry_date)))

VcPubKeys == {bytes_to_hex(PubKey1), bytes_to_hex(PubKey2), bytes_to_hex(PubKeyX),
              BadHex}

\* a credential signed by issuer 1, presented at every time, with every nonce
VcGenArgsInTime ==
  {[holder_id |-> HolderA, issuer |-> IssuerBC, issue_date |-> i, expiry_date |-> e,
    vc_signature |-> SignatureOf(HolderA, IssuerBC, i, e, Secret1),
    issuer_pubkey |-> bytes_to_hex(PubKey1), current_time |-> t, nonce |-> n,
    proof_out |-> Buffer(ProofHexLen + 1)] :
     i \in Dates, e \in Dates, t \in 0..MaxTime, n \in Nonces}

\* fields, signatures and issuer KEYS that do or do not belong together
VcGenArgsSigned ==
  {[holder_id |-> f[1], issuer |-> f[2], issue_date |-> 1, expiry_date |-> 2,
    vc_signature |-> s, issuer_pubkey |-> k, current_time |-> 1,
    nonce |-> NonceOne, proof_out |-> Buffer(ProofHexLen + 1)] :
     f \in {<<HolderA, IssuerBC>>, <<HolderAB, IssuerC>>, <<HolderA, IssuerC>>},
     s \in {SignatureOf(HolderA, IssuerBC, 1, 2, Secret1),
            SignatureOf(HolderA, IssuerBC, 1, 2, Secret2), BadHex, ShortHex},
     k \in VcPubKeys \cup {ShortHex}}

\* null pointers and output buffers of every size
VcGenArgsBuffers ==
  {[holder_id |-> h, issuer |-> IssuerBC, issue_date |-> 1, expiry_date |-> 2,
    vc_signature |-> SignatureOf(HolderA, IssuerBC, 1, 2, Secret1),
    issuer_pubkey |-> k, current_time |-> 1, nonce |-> NonceOne, proof_out |-> b] :
     h \in {HolderA, Null}, k \in {bytes_to_hex(PubKey1), Null}, b \in ProofBuffers}

VcGenArgs == VcGenArgsInTime \cup VcGenArgsSigned \cup VcGenArgsBuffers

\* the results of ZK_GenerateVCProof, tabulated once
VcGenResults ==
  [k \in KeyStores("vc"), a \in VcGenArgs |-> ZK_GenerateVCProof(k, a)]

VcVerifyArgs ==
  [proof_hex : ProofsOf(VcGenResults) \cup NoProofTexts,
   issuer_pubkey : VcPubKeys \cup {Null}, current_time : {0, MaxTime}, nonce : Nonces]

\* the results of ZK_VerifyVCProof, tabulated once
VcVerifyResults ==
  [k \in KeyStores("vc"), a \in VcVerifyArgs |-> ZK_VerifyVCProof(k, a)]

(***************************************************************************)
(* The boundary calls of one caller                                        *)
(***************************************************************************)

\* the threads of the process that call the library
MaxThreads == 2

Threads == 1..MaxThreads

NoThread == 0

NoCall == [op |-> "none", args |-> <<>>, ret |-> 0, out |-> Null, steps |-> <<>>,
           keys0 |-> None]

\* reinit: since the proof was generated, a successful ZK_Init has filled a
\* KeyStore that a ZK_Cleanup had emptied
NoProof == [has |-> FALSE, proof |-> <<>>, args |-> <<>>, reinit |-> FALSE]

NoSignature == [has |-> FALSE, signature |-> <<>>, args |-> <<>>]

\* the proving-library entry points among the steps
LibraryEntry == {"Setup", "Prove", "Serialize", "Deserialize", "Verify"}

\* the configuration when step i of a call runs: configure_rayon is a step of
\* ZK_Init alone, and its first
ConfigAt(c, steps, i) ==
  IF \E j \in 1..(i - 1) : steps[j] = "ConfigureRayon" THEN configure_rayon(c) ELSE c

ConfigAfter(c, steps) == ConfigAt(c, steps, Len(steps) + 1)

\* some library entry point among the steps runs while RAYON_NUM_THREADS is unset
EntryUnconfigured(c, steps) ==
  \E i \in 1..Len(steps) :
    steps[i] \in LibraryEntry /\ ConfigAt(c, steps, i).rayon_num_threads # "1"

Returned(op, a, r) ==
  /\ last' = [op |-> op, args |-> a, ret |-> r.ret, out |-> r.out, steps |-> r.steps,
              keys0 |-> KEYS]
  /\ rayon' = ConfigAfter(rayon, r.steps)
  /\ unconfigured' = (unconfigured \/ EntryUnconfigured(rayon, r.steps))

\* a successful generation may be the one whose proof is kept
Keep(a, r) ==
  \/ UNCHANGED kept
  \/ /\ r.ret = 0
     /\ kept' = [has |-> TRUE, proof |-> ReadCStr(r.out), args |-> a,
                 reinit |-> FALSE]

CallInit ==
  /\ \E fault \in {"none", "setup_error", "lock_error"} :
       LET r == ZK_Init(KEYS, library, fault)
       IN  /\ KEYS' = r.keys
           /\ Returned("ZK_Init", <<fault>>,
                       [ret |-> r.ret, out |-> Null, steps |-> r.steps])
           /\ kept' = [kept EXCEPT !.reinit =
                         kept.has /\ (kept.reinit \/ (r.ret = 0 /\ KEYS = None))]
  /\ UNCHANGED <<library, issued, signed, threads>>

CallCleanup ==
  /\ KEYS' = ZK_Cleanup(KEYS)
  /\ Returned("ZK_Cleanup", <<>>, Result(0, Null, <<>>))
  /\ UNCHANGED <<library, issued, kept, signed, threads>>

CallGenerateProof ==
  /\ library = "acl"
  /\ \E a \in AclGenArgs :
       LET r == AclGenResults[KEYS, a]
       IN  Returned("ZK_GenerateProof", a, r) /\ Keep(a, r)
  /\ UNCHANGED <<library, issued, KEYS, signed, threads>>

CallVerifyProof ==
  /\ library = "acl"
  /\ \E a \in AclVerifyArgs :
       /\ a.proof_hex \in NoProofTexts \/ (kept.has /\ a.proof_hex = kept.proof)
       /\ Returned("ZK_VerifyProof", a, AclVerifyResults[KEYS, a])
  /\ UNCHANGED <<library, issued, KEYS, kept, signed, threads>>

CallGenerateVCProof ==
  /\ library = "vc"
  /\ \E a \in VcGenArgs :
       LET r == VcGenResults[KEYS, a]
       IN  Returned("ZK_GenerateVCProof", a, r) /\ Keep(a, r)
  /\ UNCHANGED <<library, issued, KEYS, signed, threads>>

CallVerifyVCProof ==
  /\ library = "vc"
  /\ \E a \in VcVerifyArgs :
       /\ a.proof_hex \in NoProofTexts \/ (kept.has /\ a.proof_hex = kept.proof)
       /\ Returned("ZK_VerifyVCProof", a, VcVerifyResults[KEYS, a])
  /\ UNCHANGED <<library, issued, KEYS, kept, signed, threads>>

Init ==
  /\ library \in {"acl", "vc"}
  /\ KEYS = None
  /\ rayon = [once |-> FALSE, rayon_num_threads |-> "unset", body_runs |-> 0]
  /\ unconfigured = FALSE
  /\ last = NoCall
  /\ kept = NoProof
  /\ signed = NoSignature
  /\ issued = [has |-> FALSE, op |-> "none", seed |-> <<>>, public_key |-> <<>>,
               private_key |-> <<>>]
  /\ lock = NoThread
  /\ pc = [t \in Threads |-> "idle"]
  /\ snap = [t \in Threads |-> None]
  /\ made = [t \in Threads |-> None]
  /\ interfered = FALSE

Next ==
  \/ CallInit
  \/ CallCleanup
  \/ CallGenerateProof
  \/ CallVerifyProof
  \/ CallGenerateVCProof
  \/ CallVerifyVCProof

Spec == Init /\ [][Next]_vars

(***************************************************************************)
(* Signing and checking credentials (zkid-vc)                              *)
(***************************************************************************)

SignatureHexLen == 2 * 64

\* holder_id and issuer: "a"/"bc", "ab"/"c", "a"/"c", "ab"/"bc"
SigFields ==
  {<<HolderA, IssuerBC>>, <<HolderAB, IssuerC>>, <<HolderA, IssuerC>>,
   <<HolderAB, IssuerBC>>}

\* private keys as the caller passes them: two keys, no hex text, two bytes
PrivKeys == {bytes_to_hex(Secret1), bytes_to_hex(Secret2), BadHex, ShortHex}

SignArgs ==
  {[holder_id |-> f[1], issuer |-> f[2], issue_date |-> 1, expiry_date |-> 2,
    issuer_private_key |-> k, signature_out |-> Buffer(SignatureHexLen + 1)] :
     f \in SigFields, k \in PrivKeys}
  \cup {[holder_id |-> h, issuer |-> IssuerBC, issue_date |-> 1, expiry_date |-> 2,
         issuer_private_key |-> bytes_to_hex(Secret1), signature_out |-> b] :
          h \in {HolderA, Null}, b \in {Null, Buffer(SignatureHexLen)}}

\* the fields of a credential among the arguments of a call
FieldsOf(a) == <<a.holder_id, a.issuer, a.issue_date, a.expiry_date>>

\* the public key, in hex, of the private key a ZK_SignVC call was given
PublicKeyOf(a) ==
  bytes_to_hex(verifying_key(hex_to_bytes(CStrToStr(a.issuer_private_key)).bytes))

CallSignVC ==
  /\ \E a \in SignArgs :
       LET r == ZK_SignVC(a)
       IN  /\ Returned("ZK_SignVC", a, r)
           /\ signed' = IF r.ret = 0
                        THEN [has |-> TRUE, signature |-> ReadCStr(r.out), args |-> a]
                        ELSE signed
  /\ UNCHANGED <<library, issued, KEYS, kept, threads>>

CallVerifyVCSignature ==
  /\ \E f \in SigFields, i \in Dates, e \in Dates,
        s \in (IF signed.has THEN {signed.signature} ELSE {}) \cup {BadHex, Null},
        k \in (VcPubKeys \ {BadHex}) \cup {Null} :
       LET a == [holder_id |-> f[1], issuer |-> f[2], issue_date |-> i,
                 expiry_date |-> e, signature |-> s, issuer_public_key |-> k]
       IN  Returned("ZK_VerifyVCSignature", a,
                    Result(ZK_VerifyVCSignature(a), Null, <<>>))
  /\ UNCHANGED <<library, issued, KEYS, kept, signed, threads>>

\* VerifiableCredential::verify_signature on a credential that carries the
\* fields and the signature of the kept ZK_SignVC call (when none is kept: "a",
\* "bc", 1, 2 and what ZK_SignVC writes for them under the first key), or a
\* signature of two bytes, and a list of claims: none, or the claim "k" = "v".
\* The bool it returns is recorded as 1 or 0.
CallVerifySignature ==
  /\ library = "vc"
  /\ \E c \in {<<>>, << <<(<<107>>), (<<118>>)>> >>},
        s \in {hex_to_bytes(IF signed.has THEN signed.signature
                            ELSE SignatureOf(HolderA, IssuerBC, 1, 2, Secret1)).bytes,
               <<1, 2>>},
        k \in {PubKey1, PubKey2} :
       LET f == IF signed.has THEN FieldsOf(signed.args)
                ELSE <<HolderA, IssuerBC, 1, 2>>
           vc == [holder_id |-> f[1], issuer |-> f[2], issue_date |-> f[3],
                  expiry_date |-> f[4], claims |-> c, signature |-> s]
       IN  Returned("verify_signature", [vc |-> vc, issuer_pubkey |-> k],
                    Result(IF verify_signature(vc, k) THEN 1 ELSE 0, Null, <<>>))
  /\ UNCHANGED <<library, issued, KEYS, kept, signed, threads>>

\* a successful key generation may be the one whose key pair is kept
Issue(op, n, r) ==
  \/ UNCHANGED issued
  \/ /\ r.ret = 0
     /\ issued' = [has |-> TRUE, op |-> op, seed |-> n,
                   public_key |-> ReadCStr(r.out[1]),
                   private_key |-> ReadCStr(r.out[2])]

\* the seedless key generation, with buffers that are large enough; its seed
\* is not an argument
CallGenerateIssuerKeypair ==
  /\ \E b \in {Buffer(2 * 32 + 1), Buffer(2 * 32 + 2)} :
       LET a == [public_key_out |-> b, private_key_out |-> Buffer(2 * 32 + 1)]
           r == ZK_GenerateIssuerKeypair(a)
       IN  Returned("ZK_GenerateIssuerKeypair", a, r)
           /\ Issue("ZK_GenerateIssuerKeypair", <<>>, r)
  /\ UNCHANGED <<library, KEYS, kept, signed, threads>>

\* the seeded key generation: the seed of the seedless one, and the seed 7
CallGenerateIssuerKeypairDeterministic ==
  /\ \E n \in {<<899695, 467294, 311768, 1>>, U64(7)},
        b \in {Buffer(2 * 32 + 1), Buffer(2 * 32 + 2)} :
       LET a == [seed |-> n, public_key_out |-> b,
                 private_key_out |-> Buffer(2 * 32 + 1)]
           r == ZK_GenerateIssuerKeypairDeterministic(a)
       IN  Returned("ZK_GenerateIssuerKeypairDeterministic", a, r)
           /\ Issue("ZK_GenerateIssuerKeypairDeterministic", n, r)
  /\ UNCHANGED <<library, KEYS, kept, signed, threads>>

InitSig == Init /\ library = "vc"

NextSig ==
  \/ CallSignVC
  \/ CallVerifyVCSignature
  \/ CallVerifySignature
  \/ CallGenerateIssuerKeypair
  \/ CallGenerateIssuerKeypairDeterministic

SpecSig == InitSig /\ [][NextSig]_vars

(***************************************************************************)
(* Every boundary call of the linked library, with arguments of every      *)
(* kind: null pointers, texts that are no hex, keys and signatures of the  *)
(* wrong length, output buffers one byte too small                         *)
(***************************************************************************)

ComputePublicID ==
  /\ library = "acl"
  /\ \E u \in {UserA, UserC, Null},
        b \in {Null, Buffer(2 * 32), Buffer(2 * 32 + 1)} :
       LET a == [user_id |-> u, public_id |-> b]
       IN  Returned("ZK_ComputePublicID", a, ZK_ComputePublicID(a))
  /\ UNCHANGED <<library, issued, KEYS, kept, signed, threads>>

GenerateProof ==
  /\ library = "acl"
  /\ \E a \in AclGenArgs : Returned("ZK_GenerateProof", a, AclGenResults[KEYS, a])
  /\ UNCHANGED <<library, issued, KEYS, kept, signed, threads>>

VerifyProof ==
  /\ library = "acl"
  /\ \E a \in AclVerifyArgs : Returned("ZK_VerifyProof", a, AclVerifyResults[KEYS, a])
  /\ UNCHANGED <<library, issued, KEYS, kept, signed, threads>>

GenerateIssuerKeypair ==
  /\ library = "vc"
  /\ \E b \in {Null, Buffer(2 * 32), Buffer(2 * 32 + 1)},
        c \in {Null, Buffer(2 * 32), Buffer(2 * 32 + 1)} :
       LET a == [public_key_out |-> b, private_key_out |-> c]
       IN  Returned("ZK_GenerateIssuerKeypair", a, ZK_GenerateIssuerKeypair(a))
  /\ UNCHANGED <<library, issued, KEYS, kept, signed, threads>>

GenerateIssuerKeypairDeterministic ==
  /\ library = "vc"
  /\ \E n \in {<<899695, 467294, 311768, 1>>, U64(7)},
        b \in {Null, Buffer(2 * 32), Buffer(2 * 32 + 1)},
        c \in {Null, Buffer(2 * 32), Buffer(2 * 32 + 1)} :
       LET a == [seed |-> n, public_key_out |-> b, private_key_out |-> c]
       IN  Returned("ZK_GenerateIssuerKeypairDeterministic", a,
                    ZK_GenerateIssuerKeypairDeterministic(a))
  /\ UNCHANGED <<library, issued, KEYS, kept, signed, threads>>

SignVC ==
  /\ library = "vc"
  /\ \E a \in SignArgs : Returned("ZK_SignVC", a, ZK_SignVC(a))
  /\ UNCHANGED <<library, issued, KEYS, kept, signed, threads>>

\* signatures of issuer 1 and of issuer 2 over "a", "bc", 1, 2, texts that are
\* no signature, and public keys of every kind
VerifyVCSignature ==
  /\ library = "vc"
  /\ \E f \in SigFields,
        s \in {SignatureOf(HolderA, IssuerBC, 1, 2, Secret1),
               SignatureOf(HolderA, IssuerBC, 1, 2, Secret2), BadHex, ShortHex, Null},
        k \in VcPubKeys \cup {ShortHex, Null} :
       LET a == [holder_id |-> f[1], issuer |-> f[2], issue_date |-> 1,
                 expiry_date |-> 2, signature |-> s, issuer_public_key |-> k]
       IN  Returned("ZK_VerifyVCSignature", a,
                    Result(ZK_VerifyVCSignature(a), Null, <<>>))
  /\ UNCHANGED <<library, issued, KEYS, kept, signed, threads>>

ComputeVCHash ==
  /\ library = "vc"
  /\ \E h \in {HolderA, HolderAB, Null}, i \in {IssuerBC, Null}, e \in Dates,
        b \in {Null, Buffer(2 * 32), Buffer(2 * 32 + 1)} :
       LET a == [holder_id |-> h, issuer |-> i, issue_date |-> 1, expiry_date |-> e,
                 vc_hash_out |-> b]
       IN  Returned("ZK_ComputeVCHash", a, ZK_ComputeVCHash(a))
  /\ UNCHANGED <<library, issued, KEYS, kept, signed, threads>>

GenerateVCProof ==
  /\ library = "vc"
  /\ \E a \in VcGenArgs : Returned("ZK_GenerateVCProof", a, VcGenResults[KEYS, a])
  /\ UNCHANGED <<library, issued, KEYS, kept, signed, threads>>

VerifyVCProof ==
  /\ library = "vc"
  /\ \E a \in VcVerifyArgs :
       Returned("ZK_VerifyVCProof", a, VcVerifyResults[KEYS, a])
  /\ UNCHANGED <<library, issued, KEYS, kept, signed, threads>>

NextCalls ==
  \/ CallInit
  \/ CallCleanup
  \/ ComputePublicID
  \/ GenerateProof
  \/ VerifyProof
  \/ GenerateIssuerKeypair
  \/ GenerateIssuerKeypairDeterministic
  \/ SignVC
  \/ VerifyVCSignature
  \/ CallVerifySignature
  \/ ComputeVCHash
  \/ GenerateVCProof
  \/ VerifyVCProof

SpecCalls == Init /\ [][NextCalls]_vars

(***************************************************************************)
(* Threads: the boundary calls step by step, under the Mutex of KEYS       *)
(***************************************************************************)

\* a lock that lets every caller through
TryLock_unguarded(holder) == TRUE

\* KEYS.lock(): the caller goes on when no thread holds the Mutex
TryLock(holder) == holder = NoThread

\* where a thread is between its KeyLookup and the end of its prove or verify
InUse == {"gen_prove", "ver_deserialize", "ver_verify"}

\* thread t enters a boundary call at pc from, and goes on to pc to
Goto(t, from, to) == pc[t] = from /\ pc' = [pc EXCEPT ![t] = to]

\* a library entry point runs: was RAYON_NUM_THREADS set before it?
EntryPoint == unconfigured' = (unconfigured \/ rayon.rayon_num_threads # "1")

\* a write of KEYS by thread t: does another thread use what it found?
Written(t) ==
  interfered' = (interfered \/ \E u \in Threads \ {t} : pc[u] \in InUse)

\* a return that keeps the Mutex locked
Release_kept(t) == lock' = lock /\ snap' = [snap EXCEPT ![t] = None]

\* the guard is dropped when the call returns
Release(t) == lock' = NoThread /\ snap' = [snap EXCEPT ![t] = None]

\* where a thread is while it holds the guard
Holding == InUse \cup {"gen_serialize"}

\* a caller enters ZK_Cleanup, a generation call or a verification call whose
\* pointers are not null; ZK_GenerateVCProof begins with its nested
\* ZK_VerifyVCSignature, the other calls with KEYS.lock()
Enter(t) ==
  /\ pc[t] = "idle"
  /\ \E to \in {"cleanup_lock", "ver_lock",
                 IF library = "vc" THEN "gen_signature" ELSE "gen_lock"} :
       pc' = [pc EXCEPT ![t] = to]
  /\ UNCHANGED <<library, issued, KEYS, rayon, unconfigured, last, kept, signed, lock,
                 snap, made, interfered>>

\* ZK_GenerateVCProof: the nested ZK_VerifyVCSignature and the time window,
\* both before KEYS.lock(); the call returns -1 when either check fails
GenSignature(t) ==
  /\ pc[t] = "gen_signature"
  /\ \E passed \in BOOLEAN :
       pc' = [pc EXCEPT ![t] = IF passed THEN "gen_lock" ELSE "idle"]
  /\ UNCHANGED <<library, issued, KEYS, rayon, unconfigured, last, kept, signed, lock,
                 snap, made, interfered>>

\* ZK_Init: configure_rayon()
InitConfigure(t) ==
  /\ Goto(t, "idle", "init_setup")
  /\ rayon' = configure_rayon(rayon)
  /\ UNCHANGED <<library, issued, KEYS, unconfigured, last, kept, signed, lock, snap, made,
                 interfered>>

\* ZK_Init: circuit_specific_setup and PreparedVerifyingKey::from, no lock held
InitSetup(t) ==
  LET m == Init_setup(library)
  IN  /\ pc[t] = "init_setup"
      /\ pc' = [pc EXCEPT ![t] = IF m.ok THEN "init_install" ELSE "idle"]
      /\ made' = [made EXCEPT ![t] = IF m.ok THEN Some(<<m.pk, m.pvk>>) ELSE None]
      /\ EntryPoint
      /\ UNCHANGED <<library, issued, KEYS, rayon, last, kept, signed, lock, snap, interfered>>

\* ZK_Init: KEYS.lock(), *keys = Some((pk, pvk)), the guard dropped
InitInstall(t) ==
  /\ Goto(t, "init_install", "idle")
  /\ TryLock(lock)
  /\ KEYS' = made[t]
  /\ Written(t)
  /\ UNCHANGED <<library, issued, rayon, unconfigured, last, kept, signed, lock, snap, made>>

\* ZK_Cleanup: KEYS.lock(), *keys = None, the guard dropped
Cleanup(t) ==
  /\ Goto(t, "cleanup_lock", "idle")
  /\ TryLock(lock)
  /\ KEYS' = ZK_Cleanup(KEYS)
  /\ Written(t)
  /\ UNCHANGED <<library, issued, rayon, unconfigured, last, kept, signed, lock, snap,
                 made>>

\* KEYS.lock() and keys_guard.as_ref() of a generation or verification call
\* whose arguments passed the checks before the lock: the call returns when
\* the KeyStore is empty, and keeps the guard otherwise
KeyLookup(t, from, to) ==
  /\ pc[t] = from
  /\ TryLock(lock)
  /\ IF as_ref(KEYS).some
     THEN /\ lock' = t
          /\ snap' = [snap EXCEPT ![t] = KEYS]
          /\ pc' = [pc EXCEPT ![t] = to]
     ELSE /\ pc' = [pc EXCEPT ![t] = "idle"]
          /\ UNCHANGED <<lock, snap>>
  /\ UNCHANGED <<library, issued, KEYS, rayon, unconfigured, last, kept, signed, made,
                 interfered>>

GenLookup(t) == KeyLookup(t, "gen_lock", "gen_prove")

\* HashAndEncode, then Groth16::prove with the pk behind the guard; the call
\* returns -1 when its texts do not decode
GenProve(t) ==
  /\ pc[t] = "gen_prove"
  /\ \E decoded \in BOOLEAN :
       IF decoded
       THEN /\ pc' = [pc EXCEPT ![t] = "gen_serialize"]
            /\ EntryPoint
            /\ UNCHANGED <<lock, snap>>
       ELSE /\ pc' = [pc EXCEPT ![t] = "idle"]
            /\ Release(t)
            /\ UNCHANGED unconfigured
  /\ UNCHANGED <<library, issued, KEYS, rayon, last, kept, signed, made, interfered>>

\* serialize_compressed, the copy to proof_out, return
GenSerialize(t) ==
  /\ Goto(t, "gen_serialize", "idle")
  /\ EntryPoint
  /\ Release(t)
  /\ UNCHANGED <<library, issued, KEYS, rayon, last, kept, signed, made, interfered>>

VerLookup(t) == KeyLookup(t, "ver_lock", "ver_deserialize")

\* hex_to_bytes(proof_hex), then deserialize_compressed; the call returns 0
\* when the text is no hex, or the bytes are no proof, or the public context
\* is no hex
VerDeserialize(t) ==
  /\ pc[t] = "ver_deserialize"
  /\ \E decoded \in BOOLEAN, parsed \in BOOLEAN :
       /\ IF decoded THEN EntryPoint ELSE UNCHANGED unconfigured
       /\ IF decoded /\ parsed
          THEN pc' = [pc EXCEPT ![t] = "ver_verify"] /\ UNCHANGED <<lock, snap>>
          ELSE pc' = [pc EXCEPT ![t] = "idle"] /\ Release(t)
  /\ UNCHANGED <<library, issued, KEYS, rayon, last, kept, signed, made, interfered>>

\* verify_with_processed_vk with the pvk behind the guard, return
VerVerify(t) ==
  /\ Goto(t, "ver_verify", "idle")
  /\ EntryPoint
  /\ Release(t)
  /\ UNCHANGED <<library, issued, KEYS, rayon, last, kept, signed, made, interfered>>

NextConc ==
  \E t \in Threads :
    \/ Enter(t)
    \/ GenSignature(t)
    \/ InitConfigure(t)
    \/ InitSetup(t)
    \/ InitInstall(t)
    \/ Cleanup(t)
    \/ GenLookup(t)
    \/ GenProve(t)
    \/ GenSerialize(t)
    \/ VerLookup(t)
    \/ VerDeserialize(t)
    \/ VerVerify(t)

SpecConc == Init /\ [][NextConc]_vars

\* a thread inside a call runs on: a step that waits for nothing is taken when
\* it stays possible, and a thread blocked in KEYS.lock() gets the Mutex when
\* the Mutex is free again and again; whether a caller enters a call is left
\* open
Running(t) ==
  \/ GenSignature(t)
  \/ InitSetup(t)
  \/ GenProve(t)
  \/ GenSerialize(t)
  \/ VerDeserialize(t)
  \/ VerVerify(t)

Locking(t) == InitInstall(t) \/ Cleanup(t) \/ GenLookup(t) \/ VerLookup(t)

FairSpecConc ==
  SpecConc /\ \A t \in Threads : WF_vars(Running(t)) /\ SF_vars(Locking(t))

(***************************************************************************)
(* Properties                                                              *)
(***************************************************************************)

GenOps == {"ZK_GenerateProof", "ZK_GenerateVCProof"}

VerOps == {"ZK_VerifyProof", "ZK_VerifyVCProof"}

\* the public context among the arguments of a generation or verification
\* call: the public identifier (zkid-acl) or the issuer public key (zkid-vc)
Context(a) == IF library = "acl" THEN a.public_id ELSE a.issuer_pubkey

\* the field element the verifier makes of a public context, if it is hex text
EncodedContext(c) ==
  IF c = Null \/ ~hex_to_bytes(CStrToStr(c)).ok THEN None
  ELSE Some(hash_to_field(hex_to_bytes(CStrToStr(c)).bytes))

\* the last call verified the kept proof
Verified == last.op \in VerOps /\ kept.has /\ last.args.proof_hex = kept.proof

\* the last verification went as far as verify_with_processed_vk
RanVerify == Len(last.steps) = 3 /\ last.steps[3] = "Verify"

\* C1: round trip, both variants: with the KeyStore populated by ZK_Init, a
\* proof a generation call returned with status 0 for nonce n, verified with
\* the same public identifier (issuer public key) and the same nonce n, gives 1
C1_RoundTrip ==
  (/\ Verified
   /\ IsSome(last.keys0)
   /\ Context(last.args) = Context(kept.args)
   /\ last.args.nonce = kept.args.nonce) => last.ret = 1

C1_Witness ==
  /\ Verified
  /\ IsSome(last.keys0)
  /\ Context(last.args) = Context(kept.args)
  /\ last.args.nonce = kept.args.nonce
  /\ last.ret = 1

\* C2: nonce binding: a proof a generation call returned for nonce n, verified
\* with the same public identifier (issuer public key) and a nonce other than
\* n, gives 0
C2_NonceBinding ==
  (/\ Verified
   /\ Context(last.args) = Context(kept.args)
   /\ last.args.nonce # kept.args.nonce) => last.ret = 0

C2_Witness ==
  /\ Verified
  /\ RanVerify
  /\ Context(last.args) = Context(kept.args)
  /\ last.args.nonce # kept.args.nonce
  /\ last.ret = 0

\* C3, as claimed: public-context binding: a proof a generation call returned,
\* verified with the same nonce and a public identifier (issuer public key)
\* whose bytes differ from the ones used at generation, gives 0
C3_ContextBytesBinding ==
  (/\ Verified
   /\ last.args.nonce = kept.args.nonce
   /\ Context(last.args) # Context(kept.args)) => last.ret = 0

\* C3, amended: a proof a generation call returned, verified with the same
\* nonce and a public identifier (issuer public key) that is no hex text or
\* whose encoded field element differs from that of the one used at
\* generation, gives 0
C3_EncodedContextBinding ==
  (/\ Verified
   /\ last.args.nonce = kept.args.nonce
   /\ EncodedContext(Context(last.args)) # EncodedContext(Context(kept.args)))
  => last.ret = 0

C3_Witness ==
  /\ Verified
  /\ RanVerify
  /\ last.args.nonce = kept.args.nonce
  /\ EncodedContext(Context(last.args)) # EncodedContext(Context(kept.args))
  /\ last.ret = 0

\* C4: signature binding: the signature ZK_SignVC returned for the fields
\* (holder_id, issuer, issue_date, expiry_date), checked by
\* ZK_VerifyVCSignature with the matching public key and a field tuple that
\* differs from the signed one in at least one field, gives 0
C4_SignatureBinding ==
  (/\ last.op = "ZK_VerifyVCSignature"
   /\ signed.has
   /\ last.args.signature = signed.signature
   /\ last.args.issuer_public_key = PublicKeyOf(signed.args)
   /\ FieldsOf(last.args) # FieldsOf(signed.args)) => last.ret = 0

\* C5: uninitialized-key rejection: with the KeyStore absent a generation call
\* returns -1 and a verification call returns 0, whatever the arguments, and
\* the call leaves the KeyStore absent and the output buffer as it was
C5_UninitializedRejection ==
  (last.op \in GenOps \cup VerOps /\ last.keys0 = None) =>
    /\ KEYS = None
    /\ last.op \in GenOps => last.ret = -1 /\ last.out = last.args.proof_out
    /\ last.op \in VerOps => last.ret = 0

C5_Witness ==
  /\ last.op \in GenOps
  /\ last.keys0 = None
  /\ kept.has
  /\ last.args = kept.args
  /\ last.ret = -1
  /\ last.out = last.args.proof_out

\* C6: the time window is the closed interval: with keys present, a correctly
\* signed credential and a buffer that is large enough, ZK_GenerateVCProof
\* returns 0 exactly when issue_date <= current_time <= expiry_date
C6_TimeWindowClosed ==
  (/\ last.op = "ZK_GenerateVCProof"
   /\ IsSome(last.keys0)
   /\ SignatureCheck(last.args)
   /\ last.args.proof_out # Null
   /\ Len(last.args.proof_out) >= ProofHexLen + 1)
  => (last.ret = 0 <=> (/\ last.args.issue_date <= last.args.current_time
                        /\ last.args.current_time <= last.args.expiry_date))

C6_Witness ==
  /\ last.op = "ZK_GenerateVCProof"
  /\ IsSome(last.keys0)
  /\ SignatureCheck(last.args)
  /\ last.args.issue_date < last.args.expiry_date
  /\ last.args.current_time = last.args.expiry_date
  /\ last.ret = 0

\* C7: KeyStore lifecycle: absent at process start; present after a successful
\* ZK_Init; absent after ZK_Cleanup, also when it was absent before; no other
\* operation changes whether it is present
C7_Lifecycle ==
  /\ last.op = "none" => KEYS = None
  /\ last.op = "ZK_Init" =>
       IF last.ret = 0 THEN IsSome(KEYS) ELSE KEYS = last.keys0
  /\ last.op = "ZK_Cleanup" => KEYS = None
  /\ last.op \notin {"none", "ZK_Init", "ZK_Cleanup"} => KEYS = last.keys0

C7_Witness ==
  /\ last.op = "ZK_Init"
  /\ last.ret = 0
  /\ last.keys0 = None
  /\ kept.has
  /\ IsSome(KEYS)

\* C8: consistent snapshot under concurrency: no install or clear of the
\* KeyStore takes effect between a call's KeyLookup and the end of its prove
\* or verify step; the call holds the lock and uses the pair that is in the
\* KeyStore all that time; the KeyStore holds nothing or the pair of one setup
C8_ConsistentSnapshot ==
  /\ ~interfered
  /\ \A t \in Threads :
       pc[t] \in InUse => lock = t /\ as_ref(snap[t]).some /\ KEYS = snap[t]
  /\ KEYS = None \/ KEYS = ZK_Init(None, library, "none").keys

C8_Witness ==
  \E t \in Threads, u \in Threads :
    pc[t] \in InUse /\ pc[u] = "init_install" /\ KEYS = snap[t]

\* C9: single-thread configuration ordering: RAYON_NUM_THREADS is set before
\* any entry point of the proving library runs, the body of the configuration
\* runs at most once per process, and later ZK_Init calls do not run it again
C9_ConfiguredFirst ==
  /\ ~unconfigured
  /\ rayon.body_runs <= 1
  /\ rayon.once <=> rayon.body_runs = 1
  /\ rayon.once <=> rayon.rayon_num_threads = "1"

C9_Witness ==
  /\ \A t \in Threads : made[t] # None
  /\ rayon.body_runs = 1
  /\ \E t \in Threads : pc[t] = "ver_verify"

\* the steps of a generation, in order
GenerationSteps ==
  <<"SignatureCheck", "TimeWindowCheck", "KeyLookup", "HashAndEncode", "Prove",
    "Serialize">>

\* C10: generation step order (zkid-vc): ZK_GenerateVCProof runs its steps in
\* the order SignatureCheck, TimeWindowCheck, KeyLookup, HashAndEncode, Prove,
\* Serialize, each once and only after the earlier ones; it proves only for a
\* credential whose signature verifies and whose window contains current_time
C10_StepOrder ==
  last.op = "ZK_GenerateVCProof" =>
    /\ Len(last.steps) <= Len(GenerationSteps)
    /\ last.steps = SubSeq(GenerationSteps, 1, Len(last.steps))
    /\ (\E i \in 1..Len(last.steps) : last.steps[i] = "Prove") =>
         SignatureCheck(last.args) /\ TimeWindowCheck(last.args)

C10_Witness ==
  /\ last.op = "ZK_GenerateVCProof"
  /\ last.steps = GenerationSteps
  /\ last.ret = 0

\* C11: failures leave shared state unchanged: every generation, verification,
\* signing, hashing and key-generation call, whatever it returns, leaves the
\* KeyStore as it found it, and a ZK_Init that fails (setup error, lock
\* unavailable) leaves the KeyStore holding its previous value
C11_FailureFrame ==
  /\ last.op \notin {"none", "ZK_Init", "ZK_Cleanup"} => KEYS = last.keys0
  /\ (last.op = "ZK_Init" /\ last.ret # 0) =>
       /\ last.ret = -1
       /\ last.args[1] \in {"setup_error", "lock_error"}
       /\ KEYS = last.keys0

C11_Witness ==
  last.op = "ZK_Init" /\ last.ret = -1 /\ IsSome(last.keys0) /\ IsSome(KEYS)

\* C12: verification accepts only on explicit success: ZK_VerifyProof and
\* ZK_VerifyVCProof return 1 only if all arguments are non-null, the KeyStore is
\* present, the proof hex decodes, the proof bytes deserialize, the public
\* context hex decodes and the verify capability returned true; every other
\* path returns 0
C12_ExplicitSuccess ==
  last.op \in VerOps =>
    LET a == last.args
        proof_bytes == hex_to_bytes(CStrToStr(a.proof_hex))
        proof == DeserializeProof(proof_bytes.bytes)
        verdict == Groth16Verify(Unwrap(last.keys0)[2],
                                 <<Unwrap(EncodedContext(Context(a))),
                                   FrFromU64(a.nonce)>>,
                                 proof.proof)
        succeeded == /\ a.proof_hex # Null
                     /\ Context(a) # Null
                     /\ IsSome(last.keys0)
                     /\ proof_bytes.ok
                     /\ proof.ok
                     /\ hex_to_bytes(CStrToStr(Context(a))).ok
                     /\ verdict.ok
                     /\ verdict.valid
    IN  /\ last.ret \in {0, 1}
        /\ last.ret = 1 => succeeded
        /\ ~succeeded => last.ret = 0

C12_Witness ==
  /\ last.op \in VerOps
  /\ last.ret = 1
  /\ last.steps = <<"KeyLookup", "Deserialize", "Verify">>

\* C13: buffer safety and no partial writes: every hex-output operation called
\* with an output capacity smaller than the hex length + 1 returns -1 and writes
\* to none of its output buffers (for the two-buffer key generations: if either
\* buffer is too small, neither is written); an output buffer is written only
\* by a call that returns 0
C13_NoPartialWrites ==
  LET a == last.args
      keypair == last.op \in {"ZK_GenerateIssuerKeypair",
                              "ZK_GenerateIssuerKeypairDeterministic"}
      before == CASE last.op = "ZK_ComputePublicID" -> <<a.public_id>>
                  [] last.op \in GenOps -> <<a.proof_out>>
                  [] last.op = "ZK_SignVC" -> <<a.signature_out>>
                  [] last.op = "ZK_ComputeVCHash" -> <<a.vc_hash_out>>
                  [] keypair -> <<a.public_key_out, a.private_key_out>>
                  [] OTHER -> <<>>
      after == IF keypair THEN last.out
               ELSE IF before = <<>> THEN <<>> ELSE <<last.out>>
      needed == CASE last.op \in GenOps -> <<ProofHexLen + 1>>
                  [] last.op = "ZK_SignVC" -> <<SignatureHexLen + 1>>
                  [] OTHER -> <<2 * 32 + 1, 2 * 32 + 1>>
  IN  /\ (\E i \in 1..Len(before) : Len(before[i]) < needed[i]) =>
           last.ret = -1 /\ after = before
      /\ after # before => last.ret = 0

C13_Witness ==
  /\ last.op = "ZK_GenerateIssuerKeypairDeterministic"
  /\ Len(last.args.public_key_out) = 2 * 32 + 1
  /\ Len(last.args.private_key_out) = 2 * 32
  /\ last.ret = -1
  /\ last.out = <<last.args.public_key_out, last.args.private_key_out>>

\* C14: proof determinism: two successful generation calls with identical
\* witness inputs (user id; credential fields and issuer key) and identical
\* nonce return the same proof hex text, whatever calls ran in between
C14_ProofDeterminism ==
  (/\ last.op \in GenOps
   /\ last.ret = 0
   /\ kept.has
   /\ last.args.nonce = kept.args.nonce
   /\ IF library = "acl" THEN last.args.user_id = kept.args.user_id
      ELSE /\ FieldsOf(last.args) = FieldsOf(kept.args)
           /\ last.args.issuer_pubkey = kept.args.issuer_pubkey)
  => ReadCStr(last.out) = kept.proof

C14_Witness ==
  /\ last.op \in GenOps
  /\ last.ret = 0
  /\ kept.has
  /\ last.args.nonce = kept.args.nonce
  /\ IF library = "acl" THEN last.args.user_id = kept.args.user_id
     ELSE /\ FieldsOf(last.args) = FieldsOf(kept.args)
          /\ last.args.issuer_pubkey = kept.args.issuer_pubkey
  /\ Len(last.args.proof_out) # Len(kept.args.proof_out)
  /\ ReadCStr(last.out) = kept.proof

\* C15: deterministic setup: every successful ZK_Init installs the same key
\* pair, so after ZK_Init .. ZK_Cleanup .. ZK_Init a proof generated under the
\* first ZK_Init still verifies, with its public context and nonce, under the
\* keys of the later ZK_Init
C15_DeterministicSetup ==
  /\ (last.op = "ZK_Init" /\ last.ret = 0) =>
       KEYS = Some(<<Init_setup(library).pk, Init_setup(library).pvk>>)
  /\ (/\ Verified
      /\ kept.reinit
      /\ IsSome(last.keys0)
      /\ Context(last.args) = Context(kept.args)
      /\ last.args.nonce = kept.args.nonce) => last.ret = 1

C15_Witness ==
  /\ Verified
  /\ kept.reinit
  /\ IsSome(last.keys0)
  /\ Context(last.args) = Context(kept.args)
  /\ last.args.nonce = kept.args.nonce
  /\ last.ret = 1

\* C16: signing and signature verification use the same message hash, which
\* excludes the claims: for a VerifiableCredential, with any list of claims,
\* that carries the signature ZK_SignVC produced over its holder_id, issuer,
\* issue_date and expiry_date, verify_signature with the public key of the
\* signing key returns true
C16_SignedCredentialVerifies ==
  (/\ last.op = "verify_signature"
   /\ signed.has
   /\ last.args.vc.signature = hex_to_bytes(signed.signature).bytes
   /\ bytes_to_hex(last.args.issuer_pubkey) = PublicKeyOf(signed.args))
  => last.ret = 1

C18_FailsClosed ==
  LET Rejected(x) ==
        LET signature_bytes == hex_to_bytes(CStrToStr(x.signature))
            pubkey_bytes == hex_to_bytes(CStrToStr(x.issuer_public_key))
        IN  \/ ~signature_bytes.ok
            \/ ~pubkey_bytes.ok
            \/ Len(signature_bytes.bytes) # 64
            \/ Len(pubkey_bytes.bytes) # 32
            \/ ~VerifyingKey_from_bytes(pubkey_bytes.bytes).ok
            \/ ~Ed25519Verify(pubkey_bytes.bytes,
                              VCMessageHash(x.holder_id, x.issuer, x.issue_date,
                                            x.expiry_date),
                              signature_bytes.bytes)
      NonNull(x) == /\ x.holder_id # Null
                    /\ x.issuer # Null
                    /\ x.signature # Null
                    /\ x.issuer_public_key # Null
  IN  /\ (/\ last.op = "ZK_VerifyVCSignature"
          /\ NonNull(last.args)
          /\ Rejected(last.args)) => last.ret = 0
      /\ (/\ last.op = "verify_signature"
          /\ \/ Len(last.args.vc.signature) # 64
             \/ ~Ed25519Verify(last.args.issuer_pubkey, message_hash(last.args.vc),
                               last.args.vc.signature)) => last.ret = 0
      /\ (/\ last.op = "ZK_GenerateVCProof"
          /\ last.args.proof_out # Null
          /\ NonNull(SignatureArgs(last.args))
          /\ Rejected(SignatureArgs(last.args)))
         => /\ last.ret = -1
            /\ \A i \in 1..Len(last.steps) : last.steps[i] # "KeyLookup"

C18_Witness ==
  /\ last.op = "ZK_GenerateVCProof"
  /\ IsSome(last.keys0)
  /\ last.args.vc_signature = ShortHex
  /\ last.args.issuer_pubkey = bytes_to_hex(PubKey1)
  /\ last.steps = <<"SignatureCheck">>
  /\ last.ret = -1

\* C19: prover/verifier public-input agreement: for the same public
\* identifier (issuer public key) hex and the same nonce, the public-input
\* vector the verifier builds equals, element for element and in the order
\* [encoded public context, nonce], the public inputs the generation path
\* assigned to the circuit, in both variants
C19_PublicInputAgreement ==
  kept.has =>
    LET assigned == DeserializeProof(hex_to_bytes(kept.proof).bytes).proof.x
        ctx_bytes == hex_to_bytes(CStrToStr(Context(kept.args))).bytes
        built == IF library = "acl"
                 THEN VerifyProof_public_inputs(ctx_bytes, kept.args.nonce)
                 ELSE VerifyVCProof_public_inputs(ctx_bytes, kept.args.nonce)
    IN  /\ built = assigned
        /\ Len(built) = 2
        /\ Some(built[1]) = EncodedContext(Context(kept.args))
        /\ built[2] = FrFromU64(kept.args.nonce)

C19_Witness ==
  /\ Verified
  /\ RanVerify
  /\ kept.args.nonce # NonceOne
  /\ last.args.nonce = kept.args.nonce
  /\ Context(last.args) = Context(kept.args)
  /\ last.ret = 1

\* C20: the encoder: for every byte string a boundary call encodes, the value
\* is the little-endian u64 of the first 8 bytes of its SHA-256 digest, mod
\* 10^12, so it lies in [0, 10^12); hash_to_field (zkid-acl) and
\* hash_bytes_to_field (zkid-vc) return the same value
C20_Encoder ==
  LET a == last.args
      encoded ==
        IF last.op \in GenOps /\ \E i \in 1..Len(last.steps) :
                                   last.steps[i] = "HashAndEncode"
        THEN {hex_to_bytes(CStrToStr(Context(a))).bytes,
              IF library = "acl" THEN Sha256(a.user_id)
              ELSE VCMessageHash(a.holder_id, a.issuer, a.issue_date, a.expiry_date)}
        ELSE IF last.op \in VerOps /\ RanVerify
        THEN {hex_to_bytes(CStrToStr(Context(a))).bytes}
        ELSE {}
      \* v \div 256 and v % 256 on limbs
      Div256(v) ==
        LET c3 == (v[4] % 256) * Limb + v[3]
            c2 == (c3 % 256) * Limb + v[2]
            c1 == (c2 % 256) * Limb + v[1]
        IN  [q |-> <<c1 \div 256, c2 \div 256, c3 \div 256, v[4] \div 256>>,
             r |-> c1 % 256]
      LeBytes(v) ==
        LET v1 == Div256(v)
            v2 == Div256(v1.q)
            v3 == Div256(v2.q)
            v4 == Div256(v3.q)
            v5 == Div256(v4.q)
            v6 == Div256(v5.q)
            v7 == Div256(v6.q)
            v8 == Div256(v7.q)
        IN  [bytes |-> <<v1.r, v2.r, v3.r, v4.r, v5.r, v6.r, v7.r, v8.r>>,
             rest |-> v8.q]
  IN  \A b \in encoded :
        LET value == hash_to_field(b)
            raw == u64_from_le_bytes(FirstEight(Sha256(b)))
        IN  /\ LeBytes(raw).bytes = FirstEight(Sha256(b))
            /\ LeBytes(raw).rest = U64Zero
            /\ \A i \in 1..4 : raw[i] \in 0..(Limb - 1)
            /\ value[1] = raw[1] /\ value[2] = raw[2]
            /\ value[3] = 0 /\ value[4] = 0
            /\ hash_bytes_to_field(b) = value

C20_Witness ==
  /\ last.op \in GenOps
  /\ last.ret = 0
  /\ u64_from_le_bytes(FirstEight(Sha256(
       hex_to_bytes(CStrToStr(Context(last.args))).bytes)))[3] > 0
  /\ hash_bytes_to_field(hex_to_bytes(CStrToStr(Context(last.args))).bytes)[3] = 0

\* C21: the witness pre-check of zkid-acl: ZK_GenerateProof returns 0 only if
\* the encoding of SHA-256(user_id) equals the encoding of the hex-decoded
\* public_id; when the two differ it returns -1 without invoking the prover
\* and without writing the output buffer; every proof it emits satisfies the
\* constraint witness = public id of the circuit
C21_WitnessPreCheck ==
  last.op = "ZK_GenerateProof" =>
    LET a == last.args
        computable == /\ a.user_id # Null
                      /\ a.public_id # Null
                      /\ hex_to_bytes(CStrToStr(a.public_id)).ok
        user_id_hash_field == hash_to_field(Sha256(a.user_id))
        public_id_field == hash_to_field(hex_to_bytes(CStrToStr(a.public_id)).bytes)
        emitted == DeserializeProof(hex_to_bytes(ReadCStr(last.out)).bytes).proof
    IN  /\ last.ret = 0 => computable /\ user_id_hash_field = public_id_field
        /\ (computable /\ user_id_hash_field # public_id_field) =>
             /\ last.ret = -1
             /\ \A i \in 1..Len(last.steps) : last.steps[i] # "Prove"
             /\ last.out = a.proof_out
        /\ last.ret = 0 =>
             /\ emitted.a = <<user_id_hash_field>>
             /\ emitted.x[1] = public_id_field
             /\ Satisfied(SetupCircuit("acl").constraints, emitted.a, emitted.x)

C21_Witness ==
  /\ last.op = "ZK_GenerateProof"
  /\ IsSome(last.keys0)
  /\ last.args.user_id = UserA
  /\ last.args.public_id = PublicIdOf(UserC)
  /\ last.steps = <<"KeyLookup", "HashAndEncode">>
  /\ last.ret = -1
  /\ last.out = last.args.proof_out

\* C22: signature round trip at the boundary: when the key pair comes from
\* ZK_GenerateIssuerKeypairDeterministic(seed) and the signature from a
\* successful ZK_SignVC over the fields with the private key of the pair,
\* ZK_VerifyVCSignature over the same fields returns 1 with the public key of
\* the pair and 0 with the public key of the pair of another seed
C22_SignatureRoundTrip ==
  (/\ last.op = "ZK_VerifyVCSignature"
   /\ issued.has
   /\ issued.op = "ZK_GenerateIssuerKeypairDeterministic"
   /\ signed.has
   /\ signed.args.issuer_private_key = issued.private_key
   /\ last.args.signature = signed.signature
   /\ FieldsOf(last.args) = FieldsOf(signed.args))
  => LET others ==
           {ReadCStr(ZK_GenerateIssuerKeypairDeterministic(
                       [seed |-> n, public_key_out |-> Buffer(2 * 32 + 1),
                        private_key_out |-> Buffer(2 * 32 + 1)]).out[1]) :
              n \in {<<899695, 467294, 311768, 1>>, U64(7)}} \ {issued.public_key}
     IN  /\ last.args.issuer_public_key = issued.public_key => last.ret = 1
         /\ last.args.issuer_public_key \in others => last.ret = 0

C22_Witness ==
  /\ last.op = "ZK_VerifyVCSignature"
  /\ issued.has
  /\ issued.op = "ZK_GenerateIssuerKeypairDeterministic"
  /\ issued.seed = U64(7)
  /\ signed.has
  /\ signed.args.issuer_private_key = issued.private_key
  /\ last.args.signature = signed.signature
  /\ FieldsOf(last.args) = FieldsOf(signed.args)
  /\ last.args.issuer_public_key = issued.public_key
  /\ last.ret = 1

C23_TimeIgnored ==
  last.op = "ZK_VerifyVCProof"
  => /\ \A t \in {0, MaxTime} :
          VcVerifyResults[last.keys0, [last.args EXCEPT !.current_time = t]].ret
            = last.ret
     /\ (/\ Verified
         /\ IsSome(last.keys0)
         /\ last.args.issuer_pubkey = kept.args.issuer_pubkey
         /\ last.args.nonce = kept.args.nonce
         /\ last.args.current_time > kept.args.expiry_date) => last.ret = 1

C23_Witness ==
  /\ last.op = "ZK_VerifyVCProof"
  /\ Verified
  /\ IsSome(last.keys0)
  /\ last.args.issuer_pubkey = kept.args.issuer_pubkey
  /\ last.args.nonce = kept.args.nonce
  /\ kept.args.issue_date <= kept.args.current_time
  /\ kept.args.current_time <= kept.args.expiry_date
  /\ last.args.current_time > kept.args.expiry_date
  /\ last.ret = 1

\* C24: no deadlock, every call returns: with threads that run on and get
\* the Mutex when it is free again and again, every thread inside a call comes
\* back to its caller; the Mutex is held exactly by a thread between its
\* KeyLookup and its return, so a thread blocked in KEYS.lock() or inside the
\* nested ZK_VerifyVCSignature of ZK_GenerateVCProof does not hold it, and a
\* thread that has returned has released it
C24_EveryCallReturns ==
  /\ [](\A t \in Threads : lock = t <=> pc[t] \in Holding)
  /\ \A t \in Threads : (pc[t] # "idle") ~> (pc[t] = "idle")

C24_Witness ==
  \E t \in Threads, u \in Threads :
    /\ t # u
    /\ lock = t
    /\ pc[t] = "gen_serialize"
    /\ pc[u] \in {"init_install", "cleanup_lock", "gen_lock", "ver_lock"}
    /\ KEYS # None

====
